---- MODULE Spec2Model ----
(***************************************************************************)
(* Traffic-studies pipeline: load_data (utils/data_loader.py), the         *)
(* transformer functions (utils/transformers/traffic_transformer.py) and   *)
(* the metrics engine (utils/metrics.py).                                  *)
(*                                                                         *)
(* A column name is modelled by the token sequence of its speed part (the  *)
(* text before "MPH"): numerals, "-", "+" and other text.  The code reads  *)
(* only the tokens (field tok); the fields kind, lo, hi and rep say what   *)
(* the name denotes and are read only by the properties.                   *)
(*                                                                         *)
(* Floats are exact rationals [num, den] with den > 0; every numeral of    *)
(* the modelled names is an integer.                                       *)
(***************************************************************************)
EXTENDS Integers, Sequences, FiniteSets

VARIABLES file, df, ret, prev, cache

vars == <<file, df, ret, prev, cache>>

(***************************************************************************)
(* Bounds of the model.                                                    *)
(***************************************************************************)
\* largest directional volume of a row of the load_data inputs
MaxVol == 1
\* largest per-row count of a speed bin of the metrics inputs
MaxCount == 2
\* number of calendar days of the average-daily-traffic inputs
MaxDays == 2

\* rows of a load_data input
RowCounts == {1, 2}
\* hourly records of one calendar day of an average-daily-traffic input
DayRowCounts == {0, 8, 19, 20, 24}
\* hourly volume (dir1) of the rows of one calendar day
DayVolumes == {20, 25}
\* speed limits handed to the operations
SpeedLimits == {29, 30, 35}

(***************************************************************************)
(* Column names.                                                           *)
(***************************************************************************)
Num(n) == [k |-> "num", v |-> n]
Dash == [k |-> "dash", v |-> 0]
Plus == [k |-> "plus", v |-> 0]
Txt == [k |-> "txt", v |-> 0]

\* what float() raises on text that is no number
ValueError == 0 - 1
\* a name with no representative speed
NoSpeed == 0 - 1
\* Python's None where a number is expected, and the "N/A" peak hour
None == 0 - 1

\* "25-29 MPH - <dir>"
Bin2529 == [tok |-> <<Num(25), Dash, Num(29)>>, kind |-> "closed", lo |-> 25, hi |-> 29, rep |-> 25]
\* "30-34 MPH - <dir>"
Bin3034 == [tok |-> <<Num(30), Dash, Num(34)>>, kind |-> "closed", lo |-> 30, hi |-> 34, rep |-> 30]
\* "35+ MPH - <dir>"
Bin35Plus == [tok |-> <<Num(35), Plus>>, kind |-> "open", lo |-> 35, hi |-> 35, rep |-> 35]
\* "30-25 MPH - <dir>": a range written upside down
Bin3025 == [tok |-> <<Num(30), Dash, Num(25)>>, kind |-> "closed", lo |-> 30, hi |-> 25, rep |-> 30]
\* "Avg MPH - <dir>": a stray column that matches the speed-column pattern
BinStray == [tok |-> <<Txt>>, kind |-> "stray", lo |-> 0, hi |-> 0, rep |-> NoSpeed]
\* "25-up MPH - <dir>": a number, a hyphen and text
Bin25Txt == [tok |-> <<Num(25), Dash, Txt>>, kind |-> "half", lo |-> 25, hi |-> 0, rep |-> 25]
\* "30 MPH - <dir>": a single number
Bin30 == [tok |-> <<Num(30)>>, kind |-> "single", lo |-> 30, hi |-> 30, rep |-> 30]

BinNames == {Bin2529, Bin3034, Bin35Plus, Bin3025, BinStray, Bin25Txt, Bin30}

(***************************************************************************)
(* Python string operations on a speed part.                               *)
(***************************************************************************)
\* col.split("MPH")[0].strip()
SpeedPart(col) == col.tok

\* "+" in speed_part
HasPlus(part) == \E i \in 1..Len(part) : part[i].k = "plus"

\* speed_part.replace("+", "")
RemovePlus(part) == SelectSeq(part, LAMBDA t : t.k # "plus")

\* float(text.strip()): the number, or ValueError
ToFloat(part) == IF Len(part) = 1 /\ part[1].k = "num" THEN part[1].v ELSE ValueError

\* index of the first "-" at or after position i, or Len(part) + 1
RECURSIVE NextDash(_, _)
NextDash(part, i) ==
  IF i > Len(part) THEN Len(part) + 1
  ELSE IF part[i].k = "dash" THEN i
  ELSE NextDash(part, i + 1)

\* speed_part.split("-")
RECURSIVE SplitDash(_)
SplitDash(part) ==
  LET d == NextDash(part, 1) IN
  IF d > Len(part) THEN <<part>>
  ELSE <<SubSeq(part, 1, d - 1)>> \o SplitDash(SubSeq(part, d + 1, Len(part)))

(***************************************************************************)
(* Tables.  A raw row is one data line of the file; idx is its pandas      *)
(* index label, date and hour its timestamp, v1 and v2 the directional     *)
(* volumes, s1 and s2 the counts of the speed columns of each direction    *)
(* (aligned with cols1 and cols2), c1 and c2 the vehicle-class counts.     *)
(***************************************************************************)
RECURSIVE SumSeq(_)
SumSeq(s) == IF s = <<>> THEN 0 ELSE Head(s) + SumSeq(Tail(s))

\* the column of a table as a sequence: df[col]
Column(rows, col) == [i \in 1..Len(rows) |-> rows[i][col]]

Abs(x) == IF x < 0 THEN 0 - x ELSE x

RECURSIVE Gcd(_, _)
Gcd(a, b) == IF b = 0 THEN a ELSE Gcd(b, a % b)

\* a float as the exact fraction n / d (d > 0), in lowest terms
Rat(n, d) == LET g == Gcd(Abs(n), d) IN [num |-> n \div g, den |-> d \div g]
Zero == Rat(0, 1)
RatLe(a, b) == a.num * b.den <= b.num * a.den
RatEq(a, b) == a.num * b.den = b.num * a.den

\* the row as read by pd.read_csv, before any derived column exists
RawRow(r) ==
  [idx |-> r.idx, date |-> r.date, hour |-> r.hour, v1 |-> r.v1, v2 |-> r.v2,
   s1 |-> r.s1, s2 |-> r.s2, c1 |-> r.c1, c2 |-> r.c2,
   Total |-> 0, Dir1_Compliant |-> 0, Dir1_Non_Compliant |-> 0,
   Dir2_Compliant |-> 0, Dir2_Non_Compliant |-> 0]

ReadCsv(f) == [i \in 1..Len(f.rows) |-> RawRow(f.rows[i])]

\* the structure detect_file_structure returns for the file
Structure(f) == [dir1_speed_cols |-> f.cols1, dir2_speed_cols |-> f.cols2]

(***************************************************************************)
(* Speed compliance of one row: the loop over the speed columns of one     *)
(* direction.                                                              *)
(***************************************************************************)
\* the speed of a column name read from its upper end
UpperSpeed(col) ==
  LET part == SpeedPart(col) IN
  IF HasPlus(part) THEN ToFloat(RemovePlus(part))
  ELSE ToFloat(SplitDash(part)[Len(SplitDash(part))])

\* the speed the loader reads from a column name, or ValueError
LowerSpeed(col) ==
  LET part == SpeedPart(col) IN
  IF HasPlus(part) THEN ToFloat(RemovePlus(part))
  ELSE ToFloat(SplitDash(part)[1])

AddBinStrict(acc, speed, count, limit) ==
  IF speed < limit THEN [acc EXCEPT !.c = @ + count]
  ELSE IF speed > limit THEN [acc EXCEPT !.n = @ + count]
  ELSE acc

\* if speed <= speed_limit: Compliant += df[col] else: Non_Compliant += df[col]
AddBin(acc, speed, count, limit) ==
  IF speed <= limit THEN [acc EXCEPT !.c = @ + count]
  ELSE [acc EXCEPT !.n = @ + count]

RECURSIVE ComplianceLoop(_, _, _, _, _)
ComplianceLoop(cols, counts, limit, i, acc) ==
  IF i > Len(cols) THEN acc
  ELSE LET speed == LowerSpeed(cols[i]) IN
       ComplianceLoop(cols, counts, limit, i + 1,
                      IF speed = ValueError THEN acc
                      ELSE AddBin(acc, speed, counts[i], limit))

RowCompliance(cols, counts, limit) ==
  ComplianceLoop(cols, counts, limit, 1, [c |-> 0, n |-> 0])

\* the four compliance columns of every row
WithCompliance(rows, st, limit) ==
  [i \in 1..Len(rows) |->
     LET r == rows[i]
         d1 == RowCompliance(st.dir1_speed_cols, r.s1, limit)
         d2 == RowCompliance(st.dir2_speed_cols, r.s2, limit)
     IN [r EXCEPT !.Dir1_Compliant = d1.c, !.Dir1_Non_Compliant = d1.n,
                  !.Dir2_Compliant = d2.c, !.Dir2_Non_Compliant = d2.n]]

RowTotalDir1Only(r) == r.v1

\* df["Total"] = df[dir1_volume_col] + df[dir2_volume_col]
RowTotal(r) == r.v1 + r.v2

WithTotal(rows) == [i \in 1..Len(rows) |-> [rows[i] EXCEPT !.Total = RowTotal(rows[i])]]

EveryRowKept(r) == TRUE

\* (df[dir1_volume_col] > 0) | (df[dir2_volume_col] > 0)
HasTraffic(r) == r.v1 > 0 \/ r.v2 > 0

DropZeroTraffic(rows) == SelectSeq(rows, HasTraffic)

FilteringStats(original, filtered) ==
  [original_rows |-> original,
   filtered_rows |-> filtered,
   removed_rows |-> original - filtered,
   removal_percentage |->
     IF original > 0 THEN Rat((original - filtered) * 100, original) ELSE Zero,
   active_hours |-> filtered,
   inactive_hours |-> original - filtered]

NoStats == FilteringStats(0, 0)

(***************************************************************************)
(* validate_traffic_data (utils/data_loader.py).                           *)
(***************************************************************************)
VolumeWarnThreshold == 1000

RECURSIVE MaxSeq(_)
MaxSeq(s) == IF Len(s) = 1 THEN s[1]
             ELSE LET m == MaxSeq(Tail(s)) IN IF s[1] > m THEN s[1] ELSE m

IsNegative(x) == x < 0

\* the hour count of a timestamp
Timestamp(r) == r.date * 24 + r.hour

\* not-a-number: the max and the mean of an empty column
NaN == [num |-> 0, den |-> 0]

VolumeChecksHighIsError(col, name) ==
  [errors |-> IF Len(col) > 0 /\ (Len(SelectSeq(col, IsNegative)) > 0 \/ MaxSeq(col) > 1000)
              THEN <<[kind |-> "negative_volume", col |-> name]>> ELSE <<>>,
   warnings |-> <<>>,
   is_valid |-> ~(Len(col) > 0 /\ (Len(SelectSeq(col, IsNegative)) > 0 \/ MaxSeq(col) > 1000))]

VolumeChecksWarningInvalidates(col, name) ==
  [errors |-> IF Len(SelectSeq(col, IsNegative)) > 0
              THEN <<[kind |-> "negative_volume", col |-> name]>> ELSE <<>>,
   warnings |-> IF Len(col) > 0 /\ MaxSeq(col) > 1000
                THEN <<[kind |-> "high_volume", col |-> name]>> ELSE <<>>,
   is_valid |-> ~(Len(SelectSeq(col, IsNegative)) > 0)
                /\ ~(Len(col) > 0 /\ MaxSeq(col) > 1000)]

\* errors and warnings of one volume column, in the order they are appended,
\* and whether is_valid was left alone (negative_count > 0 sets it to False)
VolumeChecks(col, name) ==
  [errors |-> IF Len(SelectSeq(col, IsNegative)) > 0
              THEN <<[kind |-> "negative_volume", col |-> name]>> ELSE <<>>,
   warnings |-> IF Len(col) > 0 /\ MaxSeq(col) > VolumeWarnThreshold
                THEN <<[kind |-> "high_volume", col |-> name]>> ELSE <<>>,
   is_valid |-> ~(Len(SelectSeq(col, IsNegative)) > 0)]

\* one error per column of the rows' field F holding a negative value
RECURSIVE NegativeColumns(_, _, _, _, _)
NegativeColumns(rows, col, ncols, i, kind) ==
  IF i > ncols THEN <<>>
  ELSE (IF \E j \in 1..Len(rows) : rows[j][col][i] < 0
        THEN <<[kind |-> kind, col |-> i]>> ELSE <<>>)
       \o NegativeColumns(rows, col, ncols, i + 1, kind)

\* whether the loop over the columns of the rows' field set is_valid to False
NegativeFound(rows, col, ncols) ==
  \E i \in 1..ncols : Len(SelectSeq(rows, LAMBDA r : r[col][i] < 0)) > 0

NCols(rows, col) == IF rows = <<>> THEN 0 ELSE Len(rows[1][col])

TotalDiff(rows) == SumSeq([i \in 1..Len(rows) |-> Abs(rows[i].Total - (rows[i].v1 + rows[i].v2))])

IrregularIntervals(rows) ==
  Cardinality({i \in 2..Len(rows) : Timestamp(rows[i]) - Timestamp(rows[i - 1]) # 1})

\* validation_results["stats"]: max and mean of each volume column, and the
\* number of rows
ValidationStats(rows) ==
  [dir1_max |-> IF rows = <<>> THEN NaN ELSE Rat(MaxSeq(Column(rows, "v1")), 1),
   dir1_mean |-> IF rows = <<>> THEN NaN ELSE Rat(SumSeq(Column(rows, "v1")), Len(rows)),
   dir2_max |-> IF rows = <<>> THEN NaN ELSE Rat(MaxSeq(Column(rows, "v2")), 1),
   dir2_mean |-> IF rows = <<>> THEN NaN ELSE Rat(SumSeq(Column(rows, "v2")), Len(rows)),
   total_hours |-> Len(rows)]

ValidateTrafficData(rows, hasTotal) ==
  LET vol1 == VolumeChecks(Column(rows, "v1"), "dir1_volume_col")
      vol2 == VolumeChecks(Column(rows, "v2"), "dir2_volume_col")
      cross == IF hasTotal /\ TotalDiff(rows) > 0
               THEN <<[kind |-> "total_mismatch", col |-> 0]>> ELSE <<>>
      speed == NegativeColumns(rows, "s1", NCols(rows, "s1"), 1, "negative_speed_dir1")
               \o NegativeColumns(rows, "s2", NCols(rows, "s2"), 1, "negative_speed_dir2")
      time == IF IrregularIntervals(rows) > 0
              THEN <<[kind |-> "irregular_intervals", col |-> 0]>> ELSE <<>>
      class == NegativeColumns(rows, "c1", NCols(rows, "c1"), 1, "negative_class_dir1")
               \o NegativeColumns(rows, "c2", NCols(rows, "c2"), 1, "negative_class_dir2")
      errors == vol1.errors \o vol2.errors \o cross \o speed \o class
      is_valid == /\ vol1.is_valid /\ vol2.is_valid
                  /\ ~(hasTotal /\ TotalDiff(rows) > 0)
                  /\ ~NegativeFound(rows, "s1", NCols(rows, "s1"))
                  /\ ~NegativeFound(rows, "s2", NCols(rows, "s2"))
                  /\ ~NegativeFound(rows, "c1", NCols(rows, "c1"))
                  /\ ~NegativeFound(rows, "c2", NCols(rows, "c2"))
  IN [is_valid |-> is_valid,
      errors |-> errors,
      warnings |-> vol1.warnings \o vol2.warnings \o time,
      stats |-> ValidationStats(rows)]

NoQuality ==
  [is_valid |-> TRUE, errors |-> <<>>, warnings |-> <<>>, stats |-> ValidationStats(<<>>)]

(***************************************************************************)
(* load_data (utils/data_loader.py).  The frame it returns, or the         *)
(* exception it raises (st), with the validation report the exception      *)
(* carries.                                                                *)
(***************************************************************************)
Frame(st, rows, compl, limit, stats, quality) ==
  [st |-> st, rows |-> rows, compl |-> compl, limit |-> limit,
   stats |-> stats, quality |-> quality]

NoFrame == Frame("none", <<>>, FALSE, 0, NoStats, NoQuality)

LoadDataResult(f, speed_limit) ==
  LET structure == Structure(f)
      raw == ReadCsv(f)
      original_row_count == Len(raw)
      enriched == WithTotal(WithCompliance(raw, structure, speed_limit))
      kept == DropZeroTraffic(enriched)
      filtering_stats == FilteringStats(original_row_count, Len(kept))
      validation_results == ValidateTrafficData(kept, TRUE)
  IN IF ~validation_results.is_valid
     THEN Frame("DataValidationError", <<>>, FALSE, speed_limit, NoStats, validation_results)
     ELSE Frame("ok", kept, TRUE, speed_limit, filtering_stats, validation_results)

(***************************************************************************)
(* Calls.  ret is the last call and what it returned; prev is the call     *)
(* before it when that was a call of the same operation; cache is what     *)
(* st.cache_data holds for _get_core_metrics_cached.                       *)
(***************************************************************************)
Call(op, limit, val) == [op |-> op, limit |-> limit, val |-> val]
NoCall == Call("none", 0, Zero)
Remember(op) == IF ret.op = op THEN ret ELSE NoCall

\* df[col].sum() of a derived column
ColumnSum(rows, col) == SumSeq(Column(rows, col))

\* the counts of the compliance columns the loader left in the table
PrecomputedCompliance(rows) ==
  LET total_compliant == ColumnSum(rows, "Dir1_Compliant") + ColumnSum(rows, "Dir2_Compliant")
      total_non_compliant == ColumnSum(rows, "Dir1_Non_Compliant") + ColumnSum(rows, "Dir2_Non_Compliant")
  IN [compliant |-> total_compliant, total |-> total_compliant + total_non_compliant]

\* load_data(file_path, speed_limit)
LoadData(speed_limit) ==
  /\ df' = LoadDataResult(file, speed_limit)
  /\ ret' = Call("load_data", speed_limit,
                 [st |-> df'.st,
                  compliant |-> PrecomputedCompliance(df'.rows).compliant,
                  total |-> PrecomputedCompliance(df'.rows).total])
  /\ prev' = Remember("load_data")
  /\ UNCHANGED <<file, cache>>

\* add_basic_enrichments(pd.read_csv(file_path), structure)
AddBasicEnrichments ==
  /\ df.st = "none"
  /\ df' = Frame("frame", WithTotal(ReadCsv(file)), FALSE, 0, NoStats, NoQuality)
  /\ ret' = Call("add_basic_enrichments", 0, Zero)
  /\ prev' = NoCall
  /\ UNCHANGED <<file, cache>>

\* calculate_speed_compliance(df, structure, speed_limit)
CalculateSpeedCompliance(speed_limit) ==
  /\ df.st = "frame"
  /\ df' = [df EXCEPT !.rows = WithCompliance(df.rows, Structure(file), speed_limit),
                      !.compl = TRUE, !.limit = speed_limit]
  /\ ret' = Call("calculate_speed_compliance", speed_limit, Zero)
  /\ prev' = NoCall
  /\ UNCHANGED <<file, cache>>

\* filter_zero_traffic(df, structure)
FilterZeroTraffic ==
  /\ df.st = "frame"
  /\ LET kept == DropZeroTraffic(df.rows) IN
     /\ df' = [df EXCEPT !.rows = kept, !.stats = FilteringStats(Len(df.rows), Len(kept))]
     /\ ret' = Call("filter_zero_traffic", 0, Zero)
  /\ prev' = NoCall
  /\ UNCHANGED <<file, cache>>

(***************************************************************************)
(* load_large_traffic_data (utils/data_loader.py): the file is read in     *)
(* chunks of chunk_size rows, each chunk is enriched and filtered, and the *)
(* chunks that kept a row are concatenated.                                *)
(***************************************************************************)
\* pd.read_csv(file_path, skiprows=..., chunksize=chunk_size)
ReadCsvChunks(f, chunk_size) ==
  LET raw == ReadCsv(f)
      n == (Len(raw) + chunk_size - 1) \div chunk_size
  IN [k \in 1..n |->
        SubSeq(raw, (k - 1) * chunk_size + 1,
               IF k * chunk_size < Len(raw) THEN k * chunk_size ELSE Len(raw))]

\* the body of the loop over the chunks: the filtered chunk
ProcessChunk(chunk, structure, speed_limit) ==
  DropZeroTraffic(WithTotal(WithCompliance(chunk, structure, speed_limit)))

\* processed_chunks: the filtered chunks that are not empty
RECURSIVE ProcessedChunks(_, _, _, _)
ProcessedChunks(chunks, structure, speed_limit, k) ==
  IF k > Len(chunks) THEN <<>>
  ELSE LET filtered_chunk == ProcessChunk(chunks[k], structure, speed_limit) IN
       (IF Len(filtered_chunk) > 0 THEN <<filtered_chunk>> ELSE <<>>)
       \o ProcessedChunks(chunks, structure, speed_limit, k + 1)

LastChunkOnly(processed_chunks) ==
  IF processed_chunks = <<>> THEN <<>>
  ELSE LET last == processed_chunks[Len(processed_chunks)] IN
       [i \in 1..Len(last) |-> [last[i] EXCEPT !.idx = i - 1]]

\* pd.concat(processed_chunks, ignore_index=True), or pd.DataFrame()
RECURSIVE Flatten(_)
Flatten(processed_chunks) ==
  IF processed_chunks = <<>> THEN <<>>
  ELSE Head(processed_chunks) \o Flatten(Tail(processed_chunks))

ConcatChunks(processed_chunks) ==
  LET rows == Flatten(processed_chunks) IN
  [i \in 1..Len(rows) |-> [rows[i] EXCEPT !.idx = i - 1]]

\* original_row_count += len(chunk)
OriginalRowCount(chunks) == SumSeq([k \in 1..Len(chunks) |-> Len(chunks[k])])

LoadLargeTrafficDataResult(f, speed_limit, chunk_size) ==
  LET structure == Structure(f)
      chunks == ReadCsvChunks(f, chunk_size)
      original_row_count == OriginalRowCount(chunks)
      rows == ConcatChunks(ProcessedChunks(chunks, structure, speed_limit, 1))
      filtering_stats == FilteringStats(original_row_count, Len(rows))
      validation_results ==
        IF Len(rows) > 0 THEN ValidateTrafficData(rows, TRUE)
        ELSE [is_valid |-> TRUE, warnings |-> <<>>, errors |-> <<>>, stats |-> <<>>]
  IN [rows |-> rows, filtering_stats |-> filtering_stats,
      data_quality |-> validation_results, processing_method |-> "chunked",
      chunk_size |-> chunk_size]

\* load_large_traffic_data(file_path, speed_limit, chunk_size)
LoadLargeTrafficData(speed_limit, chunk_size) ==
  /\ ret' = Call("load_large_traffic_data", speed_limit,
                 LoadLargeTrafficDataResult(file, speed_limit, chunk_size))
  /\ prev' = NoCall
  /\ UNCHANGED <<file, df, cache>>

(***************************************************************************)
(* Inputs of the chunked-loading specification: files of one to three      *)
(* hourly rows, each with or without traffic, read in chunks of one to     *)
(* three rows.                                                             *)
(***************************************************************************)
ChunkSizes == {1, 2, 3}
ChunkRowCounts == {1, 2, 3}
ChunkRowValues == [v1 : 0..MaxVol, v2 : 0..MaxVol]

ChunkRow(i, x) ==
  [idx |-> i - 1, date |-> 1, hour |-> i - 1, v1 |-> x.v1, v2 |-> x.v2,
   s1 |-> <<x.v1>>, s2 |-> <<x.v2>>, c1 |-> <<x.v1>>, c2 |-> <<x.v2>>]

ChunkFiles ==
  UNION {{[cols1 |-> <<Bin2529>>, cols2 |-> <<Bin3034>>,
           rows |-> [i \in 1..n |-> ChunkRow(i, xs[i])]] : xs \in [1..n -> ChunkRowValues]}
         : n \in ChunkRowCounts}

InitChunk ==
  /\ file \in ChunkFiles
  /\ df = NoFrame
  /\ ret = NoCall
  /\ prev = NoCall
  /\ cache = {}

NextChunk ==
  \/ \E l \in SpeedLimits : LoadData(l)
  \/ \E l \in SpeedLimits, c \in ChunkSizes : LoadLargeTrafficData(l, c)

SpecChunk == InitChunk /\ [][NextChunk]_vars

(***************************************************************************)
(* Inputs of the loading specification: files of one or two data rows      *)
(* whose volumes may be negative, zero or positive, and in which one       *)
(* speed count or one class count of a row may be negative.                *)
(***************************************************************************)
LoadRowValues == [v1 : (0 - 1)..MaxVol, v2 : (0 - 1)..MaxVol, neg : {"none", "speed", "class"}]

LoadRow(i, x) ==
  [idx |-> i - 1, date |-> 1, hour |-> i - 1, v1 |-> x.v1, v2 |-> x.v2,
   s1 |-> <<IF x.neg = "speed" THEN 0 - 1 ELSE 1>>, s2 |-> <<1>>,
   c1 |-> <<IF x.neg = "class" THEN 0 - 1 ELSE 0>>, c2 |-> <<0>>]

LoadFiles ==
  UNION {{[cols1 |-> <<Bin2529>>, cols2 |-> <<Bin3034>>,
           rows |-> [i \in 1..n |-> LoadRow(i, xs[i])]] : xs \in [1..n -> LoadRowValues]}
         : n \in RowCounts}

\* files of two rows with an hourly volume at and above the warning
\* threshold, and with the second row one or two hours after the first
WarningFiles ==
  {[cols1 |-> <<Bin2529>>, cols2 |-> <<Bin3034>>,
    rows |-> <<[idx |-> 0, date |-> 1, hour |-> 0, v1 |-> high, v2 |-> 1,
                s1 |-> <<1>>, s2 |-> <<1>>, c1 |-> <<0>>, c2 |-> <<0>>],
               [idx |-> 1, date |-> 1, hour |-> h, v1 |-> 1, v2 |-> low,
                s1 |-> <<1>>, s2 |-> <<1>>, c1 |-> <<0>>, c2 |-> <<0>>]>>]
     : high \in {VolumeWarnThreshold, VolumeWarnThreshold + 1}, h \in {1, 2},
       low \in {0 - 1, 0, 1}}

\* files of three rows: a volume at or above the warning threshold, an hour
\* with no traffic, and an hour with traffic
QuietHourFiles ==
  {[cols1 |-> <<Bin2529>>, cols2 |-> <<Bin3034>>,
    rows |-> <<[idx |-> 0, date |-> 1, hour |-> 0, v1 |-> high, v2 |-> 1,
                s1 |-> <<1>>, s2 |-> <<1>>, c1 |-> <<0>>, c2 |-> <<0>>],
               [idx |-> 1, date |-> 1, hour |-> 1, v1 |-> 0, v2 |-> 0,
                s1 |-> <<0>>, s2 |-> <<0>>, c1 |-> <<0>>, c2 |-> <<0>>],
               [idx |-> 2, date |-> 1, hour |-> 2, v1 |-> 1, v2 |-> 1,
                s1 |-> <<1>>, s2 |-> <<1>>, c1 |-> <<0>>, c2 |-> <<0>>]>>]
     : high \in {VolumeWarnThreshold, VolumeWarnThreshold + 1}}

InitLoad ==
  /\ file \in LoadFiles \cup WarningFiles \cup QuietHourFiles
  /\ df = NoFrame
  /\ ret = NoCall
  /\ prev = NoCall
  /\ cache = {}

NextLoad ==
  \/ \E l \in SpeedLimits : LoadData(l)
  \/ AddBasicEnrichments
  \/ \E l \in SpeedLimits : CalculateSpeedCompliance(l)
  \/ FilterZeroTraffic

SpecLoad == InitLoad /\ [][NextLoad]_vars

(***************************************************************************)
(* Metrics engine (utils/metrics.py).  A metric reads a speed column only  *)
(* through df[col].sum(): cols are the names, sums the column sums.        *)
(***************************************************************************)
\* [df[col].sum() for col in speed_cols], for the speed columns F of n names
ColSums(rows, col, n) ==
  [i \in 1..n |-> SumSeq([j \in 1..Len(rows) |-> rows[j][col][i]])]

\* whether calculate_compliance adds the column's count to compliant, or
\* "skip" when the name raises ValueError
ComplianceVerdictUpperBound(col, speed_limit) ==
  LET part == SpeedPart(col)
      parts == SplitDash(part)
      speed == LowerSpeed(col)
  IN IF speed = ValueError THEN "skip"
     ELSE IF HasPlus(part)
     THEN (IF speed > speed_limit THEN "non_compliant" ELSE "compliant")
     ELSE IF Len(parts) = 2
     THEN LET upper_bound == ToFloat(parts[2])
          IN IF upper_bound = ValueError THEN "skip"
             ELSE IF upper_bound <= speed_limit THEN "compliant"
             ELSE "non_compliant"
     ELSE (IF speed <= speed_limit THEN "compliant" ELSE "non_compliant")

ComplianceVerdictInRangeOnly(col, speed_limit) ==
  LET part == SpeedPart(col)
      parts == SplitDash(part)
      speed == LowerSpeed(col)
  IN IF speed = ValueError THEN "skip"
     ELSE IF HasPlus(part)
     THEN (IF speed > speed_limit THEN "non_compliant" ELSE "compliant")
     ELSE IF Len(parts) = 2
     THEN LET lower_bound == ToFloat(parts[1])
              upper_bound == ToFloat(parts[2])
          IN IF upper_bound = ValueError THEN "skip"
             ELSE IF speed_limit >= lower_bound /\ speed_limit <= upper_bound THEN "compliant"
             ELSE "non_compliant"
     ELSE (IF speed <= speed_limit THEN "compliant" ELSE "non_compliant")

ComplianceVerdict(col, speed_limit) ==
  LET part == SpeedPart(col)
      parts == SplitDash(part)
      speed == LowerSpeed(col)
  IN IF speed = ValueError THEN "skip"
     ELSE IF HasPlus(part)
     THEN (IF speed > speed_limit THEN "non_compliant" ELSE "compliant")
     ELSE IF Len(parts) = 2
     THEN LET lower_bound == ToFloat(parts[1])
              upper_bound == ToFloat(parts[2])
          IN IF upper_bound = ValueError THEN "skip"
             ELSE IF speed_limit >= lower_bound /\ speed_limit <= upper_bound THEN "compliant"
             ELSE IF upper_bound < speed_limit THEN "compliant"
             ELSE "non_compliant"
     ELSE (IF speed <= speed_limit THEN "compliant" ELSE "non_compliant")

\* calculate_compliance(df, speed_cols, speed_limit) -> (compliant, total)
RECURSIVE CalculateComplianceLoop(_, _, _, _, _)
CalculateComplianceLoop(cols, sums, speed_limit, i, acc) ==
  IF i > Len(cols) THEN acc
  ELSE LET verdict == ComplianceVerdict(cols[i], speed_limit) IN
       CalculateComplianceLoop(cols, sums, speed_limit, i + 1,
         IF verdict = "skip" THEN acc
         ELSE [compliant |-> acc.compliant + (IF verdict = "compliant" THEN sums[i] ELSE 0),
               total |-> acc.total + sums[i]])

CalculateComplianceOf(cols, sums, speed_limit) ==
  CalculateComplianceLoop(cols, sums, speed_limit, 1, [compliant |-> 0, total |-> 0])

(***************************************************************************)
(* calculate_85th_percentile_speed                                         *)
(***************************************************************************)
OpenBinWidth == 5
PercentileNum == 85
PercentileDen == 100

\* (lower, upper) of a column name; ok is FALSE when float() raises ValueError
SpeedRange(col) ==
  LET part == SpeedPart(col) IN
  IF HasPlus(part)
  THEN LET lower == ToFloat(RemovePlus(part)) IN
       [ok |-> lower # ValueError, lower |-> lower, upper |-> lower + OpenBinWidth]
  ELSE LET speed_range == SplitDash(part)
           lower == ToFloat(speed_range[1])
           upper == IF Len(speed_range) > 1 THEN ToFloat(speed_range[2]) ELSE lower
       IN [ok |-> lower # ValueError /\ upper # ValueError, lower |-> lower, upper |-> upper]

\* the (lower, upper, count) triples of the columns with count > 0
RECURSIVE SpeedRanges(_, _, _)
SpeedRanges(cols, sums, i) ==
  IF i > Len(cols) THEN <<>>
  ELSE LET range == SpeedRange(cols[i]) IN
       (IF range.ok /\ sums[i] > 0
        THEN <<[lower |-> range.lower, upper |-> range.upper, count |-> sums[i]]>>
        ELSE <<>>)
       \o SpeedRanges(cols, sums, i + 1)

\* the order of Python tuples (lower, upper, count)
TupleLe(a, b) ==
  \/ a.lower < b.lower
  \/ a.lower = b.lower /\ a.upper < b.upper
  \/ a.lower = b.lower /\ a.upper = b.upper /\ a.count <= b.count

RECURSIVE InsertSorted(_, _)
InsertSorted(x, s) ==
  IF s = <<>> THEN <<x>>
  ELSE IF TupleLe(x, Head(s)) THEN <<x>> \o s
  ELSE <<Head(s)>> \o InsertSorted(x, Tail(s))

UnsortedRanges(s) == s

\* speed_ranges.sort()
RECURSIVE SortRanges(_)
SortRanges(s) == IF s = <<>> THEN <<>> ELSE InsertSorted(Head(s), SortRanges(Tail(s)))


RECURSIVE PercentileWalkFromZero(_, _, _, _)
PercentileWalkFromZero(ranges, i, cumulative, total_vehicles) ==
  IF i > Len(ranges) THEN Rat(ranges[Len(ranges)].upper, 1)
  ELSE LET r == ranges[i] IN
       IF PercentileDen * (cumulative + r.count) >= PercentileNum * total_vehicles
       THEN Rat(r.lower * PercentileDen * r.count
                + (PercentileNum * total_vehicles) * (r.upper - r.lower),
                PercentileDen * r.count)
       ELSE PercentileWalkFromZero(ranges, i + 1, cumulative + r.count, total_vehicles)

\* the walk over the sorted ranges: target_85th = total_vehicles * 0.85
RECURSIVE PercentileWalk(_, _, _, _)
PercentileWalk(ranges, i, cumulative, total_vehicles) ==
  IF i > Len(ranges) THEN Rat(ranges[Len(ranges)].upper, 1)
  ELSE LET r == ranges[i] IN
       IF PercentileDen * (cumulative + r.count) >= PercentileNum * total_vehicles
       THEN Rat(r.lower * PercentileDen * r.count
                + (PercentileNum * total_vehicles - PercentileDen * cumulative)
                  * (r.upper - r.lower),
                PercentileDen * r.count)
       ELSE PercentileWalk(ranges, i + 1, cumulative + r.count, total_vehicles)

Calculate85thPercentileSpeedOf(cols, sums) ==
  IF cols = <<>> THEN Zero
  ELSE LET speed_ranges == SortRanges(SpeedRanges(cols, sums, 1)) IN
       IF speed_ranges = <<>> THEN Zero
       ELSE LET total_vehicles == SumSeq(Column(speed_ranges, "count")) IN
            IF total_vehicles = 0 THEN Zero
            ELSE PercentileWalk(speed_ranges, 1, 0, total_vehicles)

(***************************************************************************)
(* calculate_weighted_speed: speeds are halves, so the weighted sum is     *)
(* kept doubled.                                                           *)
(***************************************************************************)
DoubledLowerBound(col) ==
  LET part == SpeedPart(col) IN
  IF HasPlus(part)
  THEN LET n == ToFloat(RemovePlus(part)) IN
       IF n = ValueError THEN ValueError ELSE 2 * n + 5
  ELSE LET n == ToFloat(SplitDash(part)[1]) IN
       IF n = ValueError THEN ValueError ELSE 2 * n

\* twice the representative speed of a column, or ValueError
DoubledMidpoint(col) ==
  LET part == SpeedPart(col) IN
  IF HasPlus(part)
  THEN LET n == ToFloat(RemovePlus(part)) IN
       IF n = ValueError THEN ValueError ELSE 2 * n + 5
  ELSE LET range == SpeedRange(col) IN
       IF ~range.ok THEN ValueError ELSE range.lower + range.upper

RECURSIVE WeightedSpeedLoop(_, _, _, _)
WeightedSpeedLoop(cols, sums, i, acc) ==
  IF i > Len(cols) THEN acc
  ELSE LET speed2 == DoubledMidpoint(cols[i]) IN
       WeightedSpeedLoop(cols, sums, i + 1,
         IF speed2 = ValueError THEN acc
         ELSE [weighted_sum2 |-> acc.weighted_sum2 + speed2 * sums[i],
               total_count |-> acc.total_count + sums[i]])

CalculateWeightedSpeedOf(cols, sums) ==
  LET acc == WeightedSpeedLoop(cols, sums, 1, [weighted_sum2 |-> 0, total_count |-> 0]) IN
  IF acc.total_count > 0 THEN Rat(acc.weighted_sum2, 2 * acc.total_count) ELSE Zero

(***************************************************************************)
(* calculate_adt                                                           *)
(***************************************************************************)
CompleteDayRecords == 20

Dates(rows) == {rows[i].date : i \in 1..Len(rows)}

\* the hours between the first and the last record of a date
DailyHourSpan(rows, d) ==
  LET hours == {rows[i].hour : i \in {j \in 1..Len(rows) : rows[j].date = d}} IN
  IF hours = {} THEN 0
  ELSE (CHOOSE h \in hours : \A g \in hours : g <= h)
       - (CHOOSE h \in hours : \A g \in hours : h <= g) + 1

\* df.groupby("Date")["Total"].sum() and df.groupby("Date").size()
DailyTotal(rows, d) == SumSeq(Column(SelectSeq(rows, LAMBDA r : r.date = d), "Total"))
DailyHourCount(rows, d) == Len(SelectSeq(rows, LAMBDA r : r.date = d))

RECURSIVE SumDailyTotals(_, _)
SumDailyTotals(rows, days) ==
  IF days = {} THEN 0
  ELSE LET d == CHOOSE x \in days : TRUE IN
       DailyTotal(rows, d) + SumDailyTotals(rows, days \ {d})

\* daily_totals[...].mean()
MeanOfDays(rows, days) == Rat(SumDailyTotals(rows, days), Cardinality(days))

AnyDayCounts(rows, d) == TRUE

IsCompleteDay(rows, d) == DailyHourCount(rows, d) >= CompleteDayRecords

CalculateAdtOf(rows) ==
  IF rows = <<>> THEN Zero
  ELSE LET complete_days == {d \in Dates(rows) : IsCompleteDay(rows, d)} IN
       IF complete_days = {} THEN MeanOfDays(rows, Dates(rows))
       ELSE MeanOfDays(rows, complete_days)

(***************************************************************************)
(* Files on disk (utils/data_loader.py, utils/parsers/traffic_parser.py).  *)
(* A line of a file is the sequence of its comma-separated fields; a field *)
(* is a column name: the speed part before "MPH" (tok, as above) and the   *)
(* words of the rest of the name.                                          *)
(***************************************************************************)
HeaderScanLines == 15
ClassNumbers == 6

\* " - ", "  - " and "-" between the words of a name
Hyphen == " - "
WideHyphen == "  - "
TightHyphen == "-"

\* a name without a speed part
Named(words) ==
  [tok |-> <<>>, kind |-> "stray", lo |-> 0, hi |-> 0, rep |-> NoSpeed, words |-> words]
\* a name made of a speed part and words, as in "25-29 MPH - Northbound"
SpeedNamed(bin, words) ==
  [tok |-> bin.tok, kind |-> bin.kind, lo |-> bin.lo, hi |-> bin.hi, rep |-> bin.rep,
   words |-> words]

\* pattern in text, on the words of a name
Contains(words, pattern) ==
  \E i \in 0..(Len(words) - Len(pattern)) : SubSeq(words, i + 1, i + Len(pattern)) = pattern

\* pattern in line
LineContains(line, pattern) == \E i \in 1..Len(line) : Contains(line[i].words, pattern)

\* pattern in "".join(columns)
JoinedContains(columns, pattern) ==
  \E i \in 1..Len(columns) : Contains(columns[i].words, pattern)

HasColumnBySubstring(columns, pattern) ==
  \E i \in 1..Len(columns) : Contains(columns[i].words, pattern)

\* pattern in columns: a column whose whole name is the pattern
HasColumn(columns, pattern) ==
  \E i \in 1..Len(columns) : columns[i].tok = <<>> /\ columns[i].words = pattern

\* Python's None for a column name, and for a dict
NoColumn == <<>>
EmptyDict == [k \in {} |-> 0]
ReturnedNone == [is_none |-> TRUE, value |-> EmptyDict]
Returned(value) == [is_none |-> FALSE, value |-> value]

Min(a, b) == IF a < b THEN a ELSE b

AllLines(f) == f.lines

\* the first 15 lines of the file
HeaderLines(f) == SubSeq(f.lines, 1, Min(HeaderScanLines, Len(f.lines)))

\* the value of the last metadata line "Key,value" among the header lines
RECURSIVE ExtractMetadata(_, _, _, _)
ExtractMetadata(header_lines, key, i, found) ==
  IF i > Len(header_lines) THEN found
  ELSE LET line == header_lines[i] IN
       ExtractMetadata(header_lines, key, i + 1,
         IF Len(line) > 1 /\ line[1].words = <<key>> THEN line[2].words ELSE found)

\* index of the first line with "Date/Time" in it, or 0
RECURSIVE FindColumnHeaderRow(_, _)
FindColumnHeaderRow(header_lines, i) ==
  IF i > Len(header_lines) THEN 0
  ELSE IF LineContains(header_lines[i], <<"Date/Time">>) THEN i
  ELSE FindColumnHeaderRow(header_lines, i + 1)

DetectTrafficDirections(columns) ==
  IF JoinedContains(columns, <<"Northbound">>)
  THEN <<"Northbound", "Southbound">>
  ELSE <<"Eastbound", "Westbound">>

SpeedColumns(columns, dir) ==
  SelectSeq(columns, LAMBDA col : \/ Contains(col.words, <<"MPH", Hyphen, dir>>)
                                  \/ Contains(col.words, <<"MPH", WideHyphen, dir>>))

HashNumber == <<"#1", "#2", "#3", "#4", "#5", "#6">>
PlainNumber == <<"1", "2", "3", "4", "5", "6">>
ClassWord == <<"Class1", "Class2", "Class3", "Class4", "Class5", "Class6">>

ClassPatterns(class_num, dir) ==
  << <<"Class", HashNumber[class_num], Hyphen, dir>>,
     <<"Class", PlainNumber[class_num], Hyphen, dir>>,
     <<ClassWord[class_num], Hyphen, dir>>,
     <<"Class", HashNumber[class_num], TightHyphen, dir>>,
     <<"Class", PlainNumber[class_num], TightHyphen, dir>> >>

\* the first column matching the first pattern that matches any, as a list
RECURSIVE FirstMatch(_, _, _)
FirstMatch(columns, patterns, k) ==
  IF k > Len(patterns) THEN <<>>
  ELSE LET matching_cols == SelectSeq(columns, LAMBDA col : Contains(col.words, patterns[k]))
       IN IF matching_cols # <<>> THEN <<matching_cols[1]>>
          ELSE FirstMatch(columns, patterns, k + 1)

RECURSIVE ClassColumns(_, _, _)
ClassColumns(columns, dir, class_num) ==
  IF class_num > ClassNumbers THEN <<>>
  ELSE FirstMatch(columns, ClassPatterns(class_num, dir), 1)
       \o ClassColumns(columns, dir, class_num + 1)

VolumePatterns(dir) == << <<"Volume", Hyphen, dir>>, <<dir>>, <<dir, "Volume">> >>

\* the first pattern that is a column, or None
RECURSIVE VolumeColumn(_, _, _)
VolumeColumn(columns, patterns, k) ==
  IF k > Len(patterns) THEN NoColumn
  ELSE IF HasColumn(columns, patterns[k]) THEN patterns[k]
  ELSE VolumeColumn(columns, patterns, k + 1)

\* map_columns, and the same code inlined in data_loader.detect_file_structure
MapColumns(columns, dir1, dir2) ==
  [dir1_speed_cols |-> SpeedColumns(columns, dir1),
   dir2_speed_cols |-> SpeedColumns(columns, dir2),
   dir1_volume_col |-> VolumeColumn(columns, VolumePatterns(dir1), 1),
   dir2_volume_col |-> VolumeColumn(columns, VolumePatterns(dir2), 1),
   dir1_class_cols |-> ClassColumns(columns, dir1, 1),
   dir2_class_cols |-> ClassColumns(columns, dir2, 1)]

\* data_loader.detect_file_structure(file_path)
DetectFileStructure(f) ==
  IF ~f.exists THEN ReturnedNone
  ELSE LET header_lines == HeaderLines(f)
           row == FindColumnHeaderRow(header_lines, 1)
       IN IF row = 0 THEN ReturnedNone
          ELSE LET columns == header_lines[row]
                   dirs == DetectTrafficDirections(columns)
                   mapping == MapColumns(columns, dirs[1], dirs[2])
               IN Returned(
                    [metadata_rows |-> row - 1,
                     columns |-> columns,
                     location |-> ExtractMetadata(header_lines, "Location", 1, NoColumn),
                     comments |-> ExtractMetadata(header_lines, "Comments", 1, NoColumn),
                     title |-> ExtractMetadata(header_lines, "Title", 1, NoColumn),
                     dir1_name |-> dirs[1],
                     dir2_name |-> dirs[2],
                     dir1_speed_cols |-> mapping.dir1_speed_cols,
                     dir2_speed_cols |-> mapping.dir2_speed_cols,
                     dir1_volume_col |-> mapping.dir1_volume_col,
                     dir2_volume_col |-> mapping.dir2_volume_col,
                     dir1_class_cols |-> mapping.dir1_class_cols,
                     dir2_class_cols |-> mapping.dir2_class_cols])

(***************************************************************************)
(* load_data(file_path, speed_limit) on a file of the disk: structure      *)
(* detection, pd.read_csv, the required columns, then the processing       *)
(* modelled by LoadDataResult.                                             *)
(***************************************************************************)
\* position of the column of that name in the header row
ColumnIndex(columns, col) == CHOOSE i \in 1..Len(columns) : columns[i] = col
NamedIndex(columns, name) == ColumnIndex(columns, Named(name))

\* the table pd.read_csv gives, its columns grouped as the structure names them
ParsedFile(f, structure) ==
  LET columns == structure.columns
      values(r, cols) == [k \in 1..Len(cols) |-> r.vals[ColumnIndex(columns, cols[k])]]
  IN [cols1 |-> structure.dir1_speed_cols,
      cols2 |-> structure.dir2_speed_cols,
      rows |-> [i \in 1..Len(f.rows) |->
                  LET r == f.rows[i] IN
                  [idx |-> i - 1, date |-> r.date, hour |-> r.hour,
                   v1 |-> r.vals[NamedIndex(columns, structure.dir1_volume_col)],
                   v2 |-> r.vals[NamedIndex(columns, structure.dir2_volume_col)],
                   s1 |-> values(r, structure.dir1_speed_cols),
                   s2 |-> values(r, structure.dir2_speed_cols),
                   c1 |-> values(r, structure.dir1_class_cols),
                   c2 |-> values(r, structure.dir2_class_cols)]]]

\* ["Date/Time", dir1_volume_col, dir2_volume_col] not in df.columns
MissingColumns(structure) ==
  SelectSeq(<< <<"Date/Time">>, structure.dir1_volume_col, structure.dir2_volume_col >>,
            LAMBDA name : ~HasColumn(structure.columns, name))

\* {**structure, "filtering_stats": ..., "data_quality": ...}
EnhancedStructure(structure, filtering_stats, validation_results) ==
  [k \in DOMAIN structure \cup {"filtering_stats", "data_quality"} |->
     IF k = "filtering_stats" THEN filtering_stats
     ELSE IF k = "data_quality" THEN validation_results
     ELSE structure[k]]

\* what load_data raises or returns: the frame, whether pd.read_csv ran, and
\* the structure returned with the table
LoadDataFromFile(f, speed_limit) ==
  LET detected == DetectFileStructure(f) IN
  IF detected.is_none
  THEN [frame |-> Frame("FileStructureError", <<>>, FALSE, speed_limit, NoStats, EmptyDict),
        read_csv |-> FALSE, structure |-> EmptyDict]
  ELSE IF MissingColumns(detected.value) # <<>>
  THEN [frame |-> Frame("DataValidationError", <<>>, FALSE, speed_limit, NoStats, EmptyDict),
        read_csv |-> TRUE, structure |-> EmptyDict]
  ELSE LET frame == LoadDataResult(ParsedFile(f, detected.value), speed_limit) IN
       [frame |-> frame,
        read_csv |-> TRUE,
        structure |-> IF frame.st = "ok"
                      THEN EnhancedStructure(detected.value, frame.stats, frame.quality)
                      ELSE EmptyDict]

\* detect_file_structure(file_path) of utils/data_loader.py
DetectStructure ==
  /\ ret' = Call("detect_file_structure", 0, DetectFileStructure(file))
  /\ prev' = NoCall
  /\ UNCHANGED <<file, df, cache>>

\* load_data(file_path, speed_limit) on the file of the disk
LoadFile(speed_limit) ==
  /\ LET result == LoadDataFromFile(file, speed_limit) IN
     /\ df' = result.frame
     /\ ret' = Call("load_data", speed_limit,
                    [st |-> result.frame.st, read_csv |-> result.read_csv,
                     structure |-> result.structure])
  /\ prev' = Remember("load_data")
  /\ UNCHANGED <<file, cache>>

(***************************************************************************)
(* Reference files (utils/parsers/traffic_parser.py).  The directory of    *)
(* the file holds CSV files; each has a stem (its name without ".csv", as  *)
(* words), its "Posted Speed:" lines (whether the key is written in        *)
(* quotes, and the value text as tokens), and a table of hourly rows with  *)
(* the columns Total, Mean Speed and 85th Percentile (a value 0 stands     *)
(* for 0 and for a missing value).                                         *)
(***************************************************************************)
\* file_name.upper(), word by word
Upper(w) ==
  CASE w = "Total" -> "TOTAL"
    [] w = "total" -> "TOTAL"
    [] w = "spd" -> "SPD"
    [] w = "Northbound" -> "NORTHBOUND"
    [] w = "Southbound" -> "SOUTHBOUND"
    [] w = "Eastbound" -> "EASTBOUND"
    [] w = "Westbound" -> "WESTBOUND"
    [] OTHER -> w

UpperWords(words) == [i \in 1..Len(words) |-> Upper(words[i])]

\* file_stem.replace("-ALL", "")
BaseName(stem) == SelectSeq(stem, LAMBDA w : w # "-ALL")

\* file.stem.startswith(base_name)
StartsWith(stem, base_name) ==
  Len(stem) >= Len(base_name) /\ SubSeq(stem, 1, Len(base_name)) = base_name

NoReferenceFiles ==
  [total_spd_file |-> NoColumn, northbound_spd_file |-> NoColumn,
   southbound_spd_file |-> NoColumn, eastbound_spd_file |-> NoColumn,
   westbound_spd_file |-> NoColumn]

\* the slot a file of the directory goes to, or "" for none
ReferenceSlot(stem, base_name) ==
  LET file_upper == UpperWords(stem)
      has(w) == Contains(file_upper, <<w>>)
  IN IF ~StartsWith(stem, base_name) THEN ""
     ELSE IF has("TOTAL") /\ has("SPD") THEN "total_spd_file"
     ELSE IF has("NORTHBOUND") /\ has("SPD") THEN "northbound_spd_file"
     ELSE IF has("SOUTHBOUND") /\ has("SPD") THEN "southbound_spd_file"
     ELSE IF has("EASTBOUND") /\ has("SPD") THEN "eastbound_spd_file"
     ELSE IF has("WESTBOUND") /\ has("SPD") THEN "westbound_spd_file"
     ELSE ""

\* the loop over data_dir.glob("*.csv") in the order the listing gives
RECURSIVE ReferenceLoop(_, _, _, _)
ReferenceLoop(listing, base_name, i, reference_files) ==
  IF i > Len(listing) THEN reference_files
  ELSE LET slot == ReferenceSlot(listing[i], base_name) IN
       ReferenceLoop(listing, base_name, i + 1,
         IF slot = "" THEN reference_files
         ELSE [reference_files EXCEPT ![slot] = listing[i]])

\* detect_reference_files(file_path)
DetectReferenceFiles(stem, listing) ==
  ReferenceLoop(listing, BaseName(stem), 1, NoReferenceFiles)

\* traffic_parser.detect_file_structure(file_path), the directory listed in
\* the order of listing
ParserDetectFileStructure(f, listing) ==
  LET detected == DetectFileStructure(f) IN
  IF detected.is_none THEN ReturnedNone
  ELSE Returned([k \in DOMAIN detected.value \cup {"reference_files"} |->
                   IF k = "reference_files" THEN DetectReferenceFiles(f.stem, listing)
                   ELSE detected.value[k]])

\* os.path.exists(path) and the file at that path
OnDisk(f) == f.dir
Exists(f, path) == \E d \in OnDisk(f) : d.stem = path
FileAt(f, path) == CHOOSE d \in OnDisk(f) : d.stem = path

\* line.split("Posted Speed:")[1].strip().strip(",").strip('"').strip(): when
\* the key is quoted, the quote that closes it stops strip(",") and the comma
\* stays in front of the value
PostedSpeedPart(line) == IF line.quoted_key THEN <<Txt>> \o line.tok ELSE line.tok

\* int(float(speed_part)) of the first "Posted Speed:" line where it is a number
RECURSIVE PostedSpeedLoop(_, _)
PostedSpeedLoop(posted, i) ==
  IF i > Len(posted) THEN None
  ELSE IF ToFloat(PostedSpeedPart(posted[i])) # ValueError
  THEN ToFloat(PostedSpeedPart(posted[i]))
  ELSE PostedSpeedLoop(posted, i + 1)

\* extract_posted_speed(total_spd_file)
ExtractPostedSpeedOf(f, total_spd_file) ==
  IF total_spd_file = NoColumn \/ ~Exists(f, total_spd_file) THEN None
  ELSE PostedSpeedLoop(FileAt(f, total_spd_file).posted, 1)

\* load_reference_speed_data(total_spd_file): the rows with traffic and with
\* every speed value the table has, or None when it has no speed column
LoadReferenceSpeedData(ref) ==
  IF ~ref.has_mean /\ ~ref.has_p85 THEN ReturnedNone
  ELSE LET with_traffic == SelectSeq(ref.rows, LAMBDA r : r.Total > 0)
       IN Returned(SelectSeq(with_traffic,
                             LAMBDA r : /\ ref.has_mean => r.mean > 0
                                        /\ ref.has_p85 => r.p85 > 0))

\* structure.get("reference_files", {}).get("total_spd_file")
TotalSpdFile(structure) ==
  IF "reference_files" \in DOMAIN structure
  THEN structure.reference_files.total_spd_file ELSE NoColumn

MeanOf(values) == IF values = <<>> THEN Zero ELSE Rat(SumSeq(values), Len(values))

\* load_mean_speed_from_speed_csv(structure), the disk being that of file f
LoadMeanSpeedFromSpeedCsv(structure, f) ==
  LET speed_file == TotalSpdFile(structure) IN
  IF speed_file = NoColumn \/ ~Exists(f, speed_file) THEN Zero
  ELSE LET ref == FileAt(f, speed_file)
           speed_df == LoadReferenceSpeedData(ref)
       IN IF ~speed_df.is_none /\ ref.has_mean
          THEN MeanOf(Column(SelectSeq(speed_df.value, LAMBDA r : r.mean > 0), "mean"))
          ELSE Zero

\* load_85th_percentile_from_speed_csv(structure)
Load85thPercentileFromSpeedCsv(structure, f) ==
  LET speed_file == TotalSpdFile(structure) IN
  IF speed_file = NoColumn \/ ~Exists(f, speed_file) THEN Zero
  ELSE LET ref == FileAt(f, speed_file)
           speed_df == LoadReferenceSpeedData(ref)
       IN IF ~speed_df.is_none /\ ref.has_p85
          THEN MeanOf(Column(SelectSeq(speed_df.value, LAMBDA r : r.p85 > 0), "p85"))
          ELSE Zero

(***************************************************************************)
(* get_core_metrics.  None stands for Python's None and for the "N/A"      *)
(* peak hour.                                                              *)
(***************************************************************************)
DefaultPostedSpeed == 30

\* the (date, hour) groups of df.groupby([date, hour])["Total"].sum()
HourGroups(rows) == {<<rows[i].date, rows[i].hour>> : i \in 1..Len(rows)}
HourlyVolume(rows, g) ==
  SumSeq(Column(SelectSeq(rows, LAMBDA r : r.date = g[1] /\ r.hour = g[2]), "Total"))

GroupBefore(g, h) == g[1] < h[1] \/ (g[1] = h[1] /\ g[2] <= h[2])

\* the first group in sorted order
FirstGroup(rows) ==
  CHOOSE g \in HourGroups(rows) : \A h \in HourGroups(rows) : GroupBefore(g, h)

\* hourly_volumes.idxmax(): the first group, in sorted order, with the largest sum
PeakGroup(rows) ==
  CHOOSE g \in HourGroups(rows) :
    /\ \A h \in HourGroups(rows) : HourlyVolume(rows, h) <= HourlyVolume(rows, g)
    /\ \A h \in HourGroups(rows) :
         HourlyVolume(rows, h) = HourlyVolume(rows, g) => GroupBefore(g, h)

Smaller(a, b) == IF a > b THEN b ELSE a

Max(a, b) == IF a > b THEN a ELSE b

\* the rate computed from the speed columns with the call's speed limit
ComputedCompliance(rows, st, speed_limit) ==
  LET d1 == CalculateComplianceOf(st.dir1_speed_cols,
                                  ColSums(rows, "s1", Len(st.dir1_speed_cols)), speed_limit)
      d2 == CalculateComplianceOf(st.dir2_speed_cols,
                                  ColSums(rows, "s2", Len(st.dir2_speed_cols)), speed_limit)
  IN [compliant |-> d1.compliant + d2.compliant, total |-> d1.total + d2.total]

CombinedCols(st) == st.dir1_speed_cols \o st.dir2_speed_cols
CombinedSums(rows, st) ==
  ColSums(rows, "s1", Len(st.dir1_speed_cols)) \o ColSums(rows, "s2", Len(st.dir2_speed_cols))

GetCoreMetricsImpl(frame, st, limit_arg) ==
  LET rows == frame.rows
      speed_limit == IF limit_arg # None THEN limit_arg
                     ELSE IF "posted_speed" \in DOMAIN st THEN st.posted_speed
                     ELSE DefaultPostedSpeed
      dir1_volume == ColumnSum(rows, "v1")
      dir2_volume == ColumnSum(rows, "v2")
      counts == IF frame.compl THEN PrecomputedCompliance(rows)
                ELSE ComputedCompliance(rows, st, speed_limit)
  IN [total_vehicles |-> ColumnSum(rows, "Total"),
      adt |-> CalculateAdtOf(rows),
      posted_speed |-> speed_limit,
      combined_avg_speed |->
        IF RatEq(LoadMeanSpeedFromSpeedCsv(st, file), Zero)
        THEN CalculateWeightedSpeedOf(CombinedCols(st), CombinedSums(rows, st))
        ELSE LoadMeanSpeedFromSpeedCsv(st, file),
      compliance_rate |-> IF counts.total > 0
                          THEN Rat(counts.compliant * 100, counts.total) ELSE Zero,
      percentile_85th |->
        IF RatEq(Load85thPercentileFromSpeedCsv(st, file), Zero)
        THEN Calculate85thPercentileSpeedOf(CombinedCols(st), CombinedSums(rows, st))
        ELSE Load85thPercentileFromSpeedCsv(st, file),
      peak_hour |-> IF rows # <<>> THEN PeakGroup(rows)[2] ELSE None,
      peak_vehicles |-> IF rows # <<>> THEN HourlyVolume(rows, PeakGroup(rows)) ELSE 0,
      dominant_direction |-> IF dir1_volume > dir2_volume THEN "dir1_name" ELSE "dir2_name",
      dominant_pct |-> IF dir1_volume + dir2_volume > 0
                       THEN Rat(Max(dir1_volume, dir2_volume) * 100, dir1_volume + dir2_volume)
                       ELSE Zero]

(***************************************************************************)
(* The metric calls, on the table at hand: one built by                    *)
(* add_basic_enrichments or one returned by load_data.                     *)
(***************************************************************************)
HasTable == df.st \in {"frame", "ok"}

\* calculate_compliance(df, structure["dirN_speed_cols"], speed_limit), N = 1, 2
CalculateCompliance(speed_limit) ==
  /\ HasTable
  /\ LET st == Structure(file) IN
     ret' = Call("calculate_compliance", speed_limit,
                 [dir1 |-> CalculateComplianceOf(st.dir1_speed_cols,
                             ColSums(df.rows, "s1", Len(st.dir1_speed_cols)), speed_limit),
                  dir2 |-> CalculateComplianceOf(st.dir2_speed_cols,
                             ColSums(df.rows, "s2", Len(st.dir2_speed_cols)), speed_limit)])
  /\ prev' = Remember("calculate_compliance")
  /\ UNCHANGED <<file, df, cache>>

\* calculate_85th_percentile_speed(df, dir1_speed_cols + dir2_speed_cols)
Calculate85thPercentileSpeed ==
  /\ HasTable
  /\ ret' = Call("calculate_85th_percentile_speed", 0,
                 Calculate85thPercentileSpeedOf(CombinedCols(Structure(file)),
                                                CombinedSums(df.rows, Structure(file))))
  /\ prev' = NoCall
  /\ UNCHANGED <<file, df, cache>>

\* calculate_weighted_speed(df, dir1_speed_cols + dir2_speed_cols)
CalculateWeightedSpeed ==
  /\ HasTable
  /\ ret' = Call("calculate_weighted_speed", 0,
                 CalculateWeightedSpeedOf(CombinedCols(Structure(file)),
                                          CombinedSums(df.rows, Structure(file))))
  /\ prev' = NoCall
  /\ UNCHANGED <<file, df, cache>>

\* calculate_adt(df)
CalculateAdt ==
  /\ HasTable
  /\ ret' = Call("calculate_adt", 0, CalculateAdtOf(df.rows))
  /\ prev' = NoCall
  /\ UNCHANGED <<file, df, cache>>

\* get_core_metrics(df, structure, speed_limit), speed_limit None when omitted
GetCoreMetrics(limit_arg) ==
  /\ HasTable
  /\ ret' = Call("get_core_metrics", limit_arg,
                 GetCoreMetricsImpl(df, Structure(file), limit_arg))
  /\ prev' = NoCall
  /\ UNCHANGED <<file, df, cache>>

(***************************************************************************)
(* Inputs of the metrics specification: one data row with traffic in both  *)
(* directions, speed columns of every shape of name, counts 0..MaxCount.   *)
(***************************************************************************)
Dir1ColumnLists ==
  {<<Bin2529, Bin3034>>, <<Bin3034, Bin2529>>, <<Bin3034, Bin35Plus>>, <<Bin30, Bin3034>>,
   <<BinStray, Bin2529>>, <<Bin3025, Bin2529>>, <<Bin3025>>, <<Bin25Txt>>, <<>>}
Dir2ColumnLists == {<<>>, <<Bin3034>>}

MetricFiles ==
  UNION {{[cols1 |-> a, cols2 |-> b,
           rows |-> <<[idx |-> 0, date |-> 1, hour |-> 0, v1 |-> 1, v2 |-> 1,
                       s1 |-> x, s2 |-> y, c1 |-> <<>>, c2 |-> <<>>]>>]
           : x \in [1..Len(a) -> 0..MaxCount], y \in [1..Len(b) -> 0..MaxCount]}
         : a \in Dir1ColumnLists, b \in Dir2ColumnLists}

\* one direction with the single column "25-29 MPH" holding 100 vehicles
ExampleFiles ==
  {[cols1 |-> <<Bin2529>>, cols2 |-> <<>>,
    rows |-> <<[idx |-> 0, date |-> 1, hour |-> 0, v1 |-> 100, v2 |-> 0,
                s1 |-> <<100>>, s2 |-> <<>>, c1 |-> <<>>, c2 |-> <<>>]>>]}

\* one data row in which both directional volumes are 0
QuietFiles ==
  {[cols1 |-> <<Bin2529>>, cols2 |-> <<Bin3034>>,
    rows |-> <<[idx |-> 0, date |-> 1, hour |-> 0, v1 |-> 0, v2 |-> 0,
                s1 |-> <<x>>, s2 |-> <<y>>, c1 |-> <<>>, c2 |-> <<>>]>>]
     : x \in 0..MaxCount, y \in 0..MaxCount}

InitMetrics ==
  /\ file \in MetricFiles \cup ExampleFiles \cup QuietFiles
  /\ df = NoFrame
  /\ ret = NoCall
  /\ prev = NoCall
  /\ cache = {}

NextMetrics ==
  \/ \E l \in SpeedLimits : LoadData(l)
  \/ AddBasicEnrichments
  \/ \E l \in SpeedLimits : CalculateSpeedCompliance(l)
  \/ \E l \in SpeedLimits : CalculateCompliance(l)
  \/ Calculate85thPercentileSpeed
  \/ CalculateWeightedSpeed
  \/ \E l \in SpeedLimits \cup {None} : GetCoreMetrics(l)

SpecMetrics == InitMetrics /\ [][NextMetrics]_vars

(***************************************************************************)
(* Inputs of the daily-traffic specification: MaxDays calendar days, each  *)
(* with a number of hourly records and one hourly volume.                  *)
(***************************************************************************)
DayShapes == [n : DayRowCounts, v : DayVolumes]

RECURSIVE DayRows(_, _, _)
DayRows(shape, d, first) ==
  IF d > MaxDays THEN <<>>
  ELSE [h \in 1..shape[d].n |->
          [idx |-> first + h - 1, date |-> d, hour |-> h - 1, v1 |-> shape[d].v, v2 |-> 0,
           s1 |-> <<>>, s2 |-> <<>>, c1 |-> <<>>, c2 |-> <<>>]]
       \o DayRows(shape, d + 1, first + shape[d].n)

AdtFiles ==
  {[cols1 |-> <<>>, cols2 |-> <<>>, rows |-> DayRows(shape, 1, 0)]
    : shape \in [1..MaxDays -> DayShapes]}

InitAdt ==
  /\ file \in AdtFiles
  /\ df = NoFrame
  /\ ret = NoCall
  /\ prev = NoCall
  /\ cache = {}

NextAdt ==
  \/ \E l \in SpeedLimits : LoadData(l)
  \/ AddBasicEnrichments
  \/ CalculateAdt

SpecAdt == InitAdt /\ [][NextAdt]_vars

(***************************************************************************)
(* Inputs of the pipeline load_data -> calculate_adt: two calendar days,   *)
(* each with 19 or 24 hourly records of which 0, 4 or 5, after the first   *)
(* hour, have no traffic in either direction.                              *)
(***************************************************************************)
PipelineDates == {1, 2}
PipelineDayShapes == [n : {19, 24}, z : {0, 4, 5}, v : DayVolumes]

PipelineDayRows(shape, d, first) ==
  [h \in 1..shape.n |->
     [idx |-> first + h - 1, date |-> d, hour |-> h - 1,
      v1 |-> IF h >= 2 /\ h <= shape.z + 1 THEN 0 ELSE shape.v, v2 |-> 0,
      s1 |-> <<>>, s2 |-> <<>>, c1 |-> <<>>, c2 |-> <<>>]]

PipelineFiles ==
  {[cols1 |-> <<>>, cols2 |-> <<>>,
    rows |-> PipelineDayRows(shape[1], 1, 0) \o PipelineDayRows(shape[2], 2, shape[1].n)]
    : shape \in [PipelineDates -> PipelineDayShapes]}

InitPipeline ==
  /\ file \in PipelineFiles
  /\ df = NoFrame
  /\ ret = NoCall
  /\ prev = NoCall
  /\ cache = {}

NextPipeline ==
  \/ \E l \in SpeedLimits : LoadData(l)
  \/ CalculateAdt

SpecPipeline == InitPipeline /\ [][NextPipeline]_vars

(***************************************************************************)
(* Inputs of the peak-hour specification: three hourly rows in time order  *)
(* over two calendar dates, two of which may share their hour, and a       *)
(* table of four hours with a Total of 100 each.                           *)
(***************************************************************************)
HourStamps == << <<1, 0>>, <<1, 23>>, <<2, 0>> >>

PeakRow(i, stamp, v1, v2) ==
  [idx |-> i - 1, date |-> stamp[1], hour |-> stamp[2], v1 |-> v1, v2 |-> v2,
   s1 |-> <<1>>, s2 |-> <<>>, c1 |-> <<>>, c2 |-> <<>>]

PeakFiles ==
  {[cols1 |-> <<Bin2529>>, cols2 |-> <<>>,
    rows |-> [i \in 1..3 |-> PeakRow(i, HourStamps[t[i]], a[i], b)]]
     : t \in {u \in [1..3 -> 1..3] : u[1] <= u[2] /\ u[2] <= u[3]},
       a \in [1..3 -> 0..(MaxVol + 1)], b \in 0..MaxVol}

UniformFiles ==
  {[cols1 |-> <<Bin2529>>, cols2 |-> <<>>,
    rows |-> [i \in 1..4 |-> PeakRow(i, <<1, i - 1>>, 100, 0)]]}

\* peak hourly volume / (peak hourly volume x 4)
QuarterOfPeak(rows) ==
  IF rows = <<>> \/ HourlyVolume(rows, PeakGroup(rows)) = 0 THEN Zero
  ELSE Rat(HourlyVolume(rows, PeakGroup(rows)), 4 * HourlyVolume(rows, PeakGroup(rows)))

\* calculate_phf(df): return 0.0
CalculatePhfOf(rows) == Zero

CalculatePhf ==
  /\ HasTable
  /\ ret' = Call("calculate_phf", 0, CalculatePhfOf(df.rows))
  /\ prev' = NoCall
  /\ UNCHANGED <<file, df, cache>>

InitPeak ==
  /\ file \in PeakFiles \cup UniformFiles
  /\ df = NoFrame
  /\ ret = NoCall
  /\ prev = NoCall
  /\ cache = {}

NextPeak ==
  \/ \E l \in SpeedLimits : LoadData(l)
  \/ AddBasicEnrichments
  \/ CalculatePhf
  \/ \E l \in SpeedLimits \cup {None} : GetCoreMetrics(l)

SpecPeak == InitPeak /\ [][NextPeak]_vars

(***************************************************************************)
(* Inputs of the detection specification: a path that may not exist; a     *)
(* file of up to 15 metadata lines followed, or not, by a column header    *)
(* row; no data row or one; a directory with reference files.  The data    *)
(* lines of a file hold numbers only and are kept apart, in rows.          *)
(***************************************************************************)
DateTime == Named(<<"Date/Time">>)

\* north-south counter: every volume, speed and class column is recognised
HeaderNS ==
  <<DateTime,
    Named(<<"Volume", Hyphen, "Northbound">>), Named(<<"Volume", Hyphen, "Southbound">>),
    SpeedNamed(Bin2529, <<"MPH", Hyphen, "Northbound">>),
    SpeedNamed(Bin2529, <<"MPH", WideHyphen, "Southbound">>),
    Named(<<"Class", "#1", Hyphen, "Northbound">>),
    Named(<<"Class", "1", TightHyphen, "Southbound">>)>>

\* east-west counter with the other two spellings of a volume column
HeaderEW ==
  <<DateTime, Named(<<"Eastbound">>), Named(<<"Westbound", "Volume">>),
    SpeedNamed(Bin2529, <<"MPH", Hyphen, "Eastbound">>),
    SpeedNamed(Bin3034, <<"MPH", Hyphen, "Westbound">>)>>

\* the second volume column is spelled "Total Volume - Southbound"
HeaderOddVolume ==
  <<DateTime,
    Named(<<"Volume", Hyphen, "Northbound">>),
    Named(<<"Total", "Volume", Hyphen, "Southbound">>),
    SpeedNamed(Bin2529, <<"MPH", Hyphen, "Northbound">>),
    SpeedNamed(Bin3034, <<"MPH", Hyphen, "Southbound">>)>>

\* no column names a direction
HeaderNoDirections == <<DateTime, Named(<<"Count">>)>>

\* the time column is named "Date/Time Stamp"
HeaderStamp ==
  <<Named(<<"Date/Time", "Stamp">>),
    Named(<<"Volume", Hyphen, "Northbound">>), Named(<<"Volume", Hyphen, "Southbound">>)>>

\* <<>> stands for a file without a column header row
HeaderRows == {<<>>, HeaderNS, HeaderEW, HeaderOddVolume, HeaderNoDirections, HeaderStamp}

MetadataLineCounts == {0, 1, HeaderScanLines - 1, HeaderScanLines}

MetadataLine(i) ==
  IF i = 1 THEN <<Named(<<"Location">>), Named(<<"Main", "St">>)>>
  ELSE <<Named(<<"Title">>), Named(<<"Study">>)>>

\* the values of the data rows of a file: none, all 0 or all 1
DataValues == {0 - 1, 0, 1}

DataRows(header, v) ==
  IF v < 0 \/ header = <<>> THEN <<>>
  ELSE <<[date |-> 1, hour |-> 0, vals |-> [k \in 1..Len(header) |-> v]]>>

\* reference files of the directory
RefTable(stem, quoted_key, tok, has_p85, mean, p85) ==
  [stem |-> stem,
   posted |-> IF tok = <<>> THEN <<>> ELSE <<[quoted_key |-> quoted_key, tok |-> tok]>>,
   has_mean |-> TRUE, has_p85 |-> has_p85,
   rows |-> <<[Total |-> 10, mean |-> mean, p85 |-> p85]>>]

TotalSpdStem == <<"A", "Total", "SPD">>
OlderTotalSpdStem == <<"A", "Total", "SPD", "old">>
NorthboundSpdStem == <<"A", "Northbound", "SPD">>
OtherTotalSpdStem == <<"B", "Total", "SPD">>

Directories ==
  {{},
   {RefTable(TotalSpdStem, FALSE, <<Num(35)>>, TRUE, 28, 33)},
   {RefTable(TotalSpdStem, FALSE, <<Num(30)>>, TRUE, 28, 0)},
   {RefTable(TotalSpdStem, TRUE, <<Num(35)>>, FALSE, 28, 0)},
   {RefTable(TotalSpdStem, FALSE, <<Txt>>, TRUE, 0, 33)},
   {RefTable(TotalSpdStem, FALSE, <<Num(35)>>, TRUE, 28, 33),
    RefTable(OlderTotalSpdStem, FALSE, <<Num(30)>>, TRUE, 26, 31)},
   {RefTable(TotalSpdStem, FALSE, <<>>, TRUE, 28, 33),
    RefTable(NorthboundSpdStem, FALSE, <<>>, TRUE, 28, 33)},
   {RefTable(OtherTotalSpdStem, FALSE, <<Num(35)>>, TRUE, 28, 33)}}

MainStem == <<"A", "-ALL">>

DiskFile(n, h, v, d) ==
  [exists |-> TRUE, stem |-> MainStem,
   lines |-> [i \in 1..n |-> MetadataLine(i)] \o (IF h = <<>> THEN <<>> ELSE <<h>>),
   rows |-> DataRows(h, v),
   dir |-> d]

DiskFiles ==
  {[exists |-> FALSE, stem |-> MainStem, lines |-> <<>>, rows |-> <<>>, dir |-> {}]}
  \cup
  {DiskFile(n, h, v, {}) : n \in MetadataLineCounts, h \in HeaderRows, v \in DataValues}
  \cup
  {DiskFile(1, h, v, d) : h \in {HeaderNS, HeaderEW}, v \in DataValues, d \in Directories}

\* the orders in which data_dir.glob("*.csv") may list the directory
Listings(f) ==
  LET stems == {d.stem : d \in f.dir} \cup {f.stem}
      n == Cardinality(stems)
  IN {l \in [1..n -> stems] : \A i, j \in 1..n : i # j => l[i] # l[j]}

\* traffic_parser.detect_file_structure(file_path)
ParserDetectStructure(listing) ==
  /\ ret' = Call("parser.detect_file_structure", 0, ParserDetectFileStructure(file, listing))
  /\ prev' = Remember("parser.detect_file_structure")
  /\ UNCHANGED <<file, df, cache>>

\* extract_posted_speed(reference_files["total_spd_file"]) after detection
ExtractPostedSpeed(listing) ==
  /\ ~ParserDetectFileStructure(file, listing).is_none
  /\ ret' = Call("extract_posted_speed", 0,
                 ExtractPostedSpeedOf(file,
                   ParserDetectFileStructure(file, listing).value.reference_files.total_spd_file))
  /\ prev' = NoCall
  /\ UNCHANGED <<file, df, cache>>

\* get_core_metrics(df, structure, speed_limit) on what load_data returned
GetCoreMetricsOfLoaded(limit_arg) ==
  /\ df.st = "ok"
  /\ ret' = Call("get_core_metrics", limit_arg,
                 GetCoreMetricsImpl(df, LoadDataFromFile(file, df.limit).structure, limit_arg))
  /\ prev' = NoCall
  /\ UNCHANGED <<file, df, cache>>

\* get_core_metrics(df, structure, speed_limit) with the structure of
\* traffic_parser.detect_file_structure
GetCoreMetricsOfParsed(limit_arg, listing) ==
  /\ df.st = "ok"
  /\ ret' = Call("get_core_metrics.parser", limit_arg,
                 GetCoreMetricsImpl(df, ParserDetectFileStructure(file, listing).value, limit_arg))
  /\ prev' = NoCall
  /\ UNCHANGED <<file, df, cache>>

InitDetect ==
  /\ file \in DiskFiles
  /\ df = NoFrame
  /\ ret = NoCall
  /\ prev = NoCall
  /\ cache = {}

NextDetect ==
  \/ DetectStructure
  \/ \E l \in Listings(file) : ParserDetectStructure(l)
  \/ \E l \in Listings(file) : ExtractPostedSpeed(l)
  \/ \E l \in SpeedLimits : LoadFile(l)
  \/ \E l \in SpeedLimits \cup {None} : GetCoreMetricsOfLoaded(l)
  \/ \E l \in SpeedLimits \cup {None}, o \in Listings(file) : GetCoreMetricsOfParsed(l, o)

SpecDetect == InitDetect /\ [][NextDetect]_vars

(***************************************************************************)
(* The cached path of get_core_metrics (st.cache_data on                   *)
(* _get_core_metrics_cached): results are kept by the arguments of the     *)
(* call.  Between two calls the vendor's export may write a reference      *)
(* file of the directory anew.                                             *)
(***************************************************************************)
\* number of argument triples the cache is followed for
MaxCacheEntries == 1

CacheKey(frame, structure, speed_limit) ==
  [df |-> frame, structure |-> structure, speed_limit |-> speed_limit]

Cached(key) == \E e \in cache : e.key = key

\* _get_core_metrics_cached(df, structure, speed_limit)
GetCoreMetricsCachedOf(key) ==
  IF Cached(key) THEN (CHOOSE e \in cache : e.key = key).value
  ELSE GetCoreMetricsImpl(key.df, key.structure, key.speed_limit)

\* get_core_metrics(df, structure, speed_limit) outside pytest
GetCoreMetricsCached(limit_arg, listing) ==
  /\ df.st = "ok"
  /\ LET key == CacheKey(df, ParserDetectFileStructure(file, listing).value, limit_arg) IN
     /\ Cached(key) \/ Cardinality(cache) < MaxCacheEntries
     /\ ret' = Call("get_core_metrics.cached", limit_arg, GetCoreMetricsCachedOf(key))
     /\ cache' = cache \cup {[key |-> key, value |-> GetCoreMetricsCachedOf(key)]}
  /\ prev' = NoCall
  /\ UNCHANGED <<file, df>>

\* the tables a reference file may be rewritten with
RewrittenTables ==
  {<<[Total |-> 10, mean |-> 28, p85 |-> 33]>>, <<[Total |-> 10, mean |-> 26, p85 |-> 31]>>}

\* a reference file of the directory is written anew
RewriteReferenceFile ==
  /\ \E d \in file.dir, t \in RewrittenTables :
       /\ d.rows # t
       /\ file' = [file EXCEPT !.dir = (@ \ {d}) \cup {[d EXCEPT !.rows = t]}]
  /\ UNCHANGED <<df, ret, prev, cache>>

CacheFiles == {DiskFile(1, HeaderNS, 1, d) : d \in Directories}

InitCache ==
  /\ file \in CacheFiles
  /\ df = NoFrame
  /\ ret = NoCall
  /\ prev = NoCall
  /\ cache = {}

NextCache ==
  \/ LoadFile(DefaultPostedSpeed)
  \/ \E l \in {None, 35}, o \in Listings(file) : GetCoreMetricsOfParsed(l, o)
  \/ \E l \in {None, 35}, o \in Listings(file) : GetCoreMetricsCached(l, o)
  \/ RewriteReferenceFile

SpecCache == InitCache /\ [][NextCache]_vars

(***************************************************************************)
(* What the column names denote (the fields kind, lo, hi, rep), for the    *)
(* properties below.                                                       *)
(***************************************************************************)
RECURSIVE SumFn(_, _)
SumFn(f, S) ==
  IF S = {} THEN 0
  ELSE LET x == CHOOSE y \in S : TRUE IN f[x] + SumFn(f, S \ {x})

\* columns whose name has a representative speed
Parseable(cols) == {i \in 1..Len(cols) : cols[i].rep # NoSpeed}
\* columns that are a closed bin "a-b" or an open bin "N+"
IsBin(col) == col.kind \in {"closed", "open"}
\* columns whose name gives a lower and an upper bound
HasBounds(col) == col.kind \in {"closed", "open", "single"}
LowerOf(col) == col.lo
UpperOf(col) == IF col.kind = "open" THEN col.lo + 5 ELSE col.hi
WellFormed(col) == col.kind = "closed" => col.lo <= col.hi

\* the count of the columns whose representative speed is at most the limit
CountUpTo(cols, counts, limit) ==
  SumFn(counts, {i \in Parseable(cols) : cols[i].rep <= limit})

Cols1 == file.cols1
Cols2 == file.cols2
Sums1 == ColSums(df.rows, "s1", Len(file.cols1))
Sums2 == ColSums(df.rows, "s2", Len(file.cols2))
Rows == 1..Len(df.rows)

(***************************************************************************)
(* C1: every row of the table load_data returns, and of the table          *)
(* add_basic_enrichments builds, has Total = dir1 volume + dir2 volume.    *)
(***************************************************************************)
C1_TotalIsSumOfDirections ==
  df.st \in {"ok", "frame"} =>
    \A i \in Rows : df.rows[i].Total = df.rows[i].v1 + df.rows[i].v2

C1_Witness ==
  /\ df.st = "ok"
  /\ ret.op = "load_data"
  /\ \E i \in Rows : df.rows[i].v1 > 0 /\ df.rows[i].v2 > 0
                     /\ df.rows[i].Total = df.rows[i].v1 + df.rows[i].v2

(***************************************************************************)
(* C2: in the table load_data returns (and the one filter_zero_traffic     *)
(* returns) no row has both directional volumes 0, and every row of the    *)
(* file with a nonzero directional volume, whatever its sign, is present.  *)
(***************************************************************************)
Filtered == df.st = "ok" \/ (df.st = "frame" /\ ret.op = "filter_zero_traffic")

C2_ZeroTrafficFiltering ==
  Filtered =>
    /\ \A i \in Rows : ~(df.rows[i].v1 = 0 /\ df.rows[i].v2 = 0)
    /\ \A k \in 1..Len(file.rows) :
         (file.rows[k].v1 # 0 \/ file.rows[k].v2 # 0)
           => \E i \in Rows : df.rows[i].idx = file.rows[k].idx

(***************************************************************************)
(* C3: when a data row of the file holds a negative value in a volume, a   *)
(* speed-bin or a vehicle-class column, load_data raises the               *)
(* data-validation failure.                                                *)
(***************************************************************************)
SeqHasNegative(s) == \E i \in 1..Len(s) : s[i] < 0

RowHasNegative(r) ==
  \/ r.v1 < 0
  \/ r.v2 < 0
  \/ SeqHasNegative(r.s1) \/ SeqHasNegative(r.s2)
  \/ SeqHasNegative(r.c1) \/ SeqHasNegative(r.c2)

C3_NegativeValueRaises ==
  (ret.op = "load_data" /\ \E k \in 1..Len(file.rows) : RowHasNegative(file.rows[k]))
    => df.st = "DataValidationError"

(***************************************************************************)
(* C4: in every row that load_data or calculate_speed_compliance has       *)
(* enriched, per direction Compliant + Non_Compliant is the sum of the     *)
(* counts of the speed columns of that direction whose name parses as a    *)
(* speed; the other columns add to neither side.                           *)
(***************************************************************************)
C4_CompliancePartitionComplete ==
  df.compl =>
    \A i \in Rows :
      /\ df.rows[i].Dir1_Compliant + df.rows[i].Dir1_Non_Compliant
           = SumFn(df.rows[i].s1, Parseable(Cols1))
      /\ df.rows[i].Dir2_Compliant + df.rows[i].Dir2_Non_Compliant
           = SumFn(df.rows[i].s2, Parseable(Cols2))

C4_Witness ==
  /\ df.compl
  /\ \E i \in Rows :
       /\ \E j \in Parseable(Cols1) : df.rows[i].s1[j] > 0
       /\ \E j \in 1..Len(Cols1) : j \notin Parseable(Cols1) /\ df.rows[i].s1[j] > 0
       /\ df.rows[i].Dir1_Compliant + df.rows[i].Dir1_Non_Compliant
            = SumFn(df.rows[i].s1, Parseable(Cols1))

(***************************************************************************)
(* C5: the lower-bound-inclusive rule.  A closed bin "a-b" counts as       *)
(* compliant exactly when a <= speed limit and an open bin "N+" exactly    *)
(* when N <= speed limit, in the compliance columns of the loader and in   *)
(* calculate_compliance.                                                   *)
(***************************************************************************)
AllBins(cols) == \A i \in 1..Len(cols) : IsBin(cols[i])
AllWellFormed(cols) == \A i \in 1..Len(cols) : WellFormed(cols[i])

\* the count of the bins whose lower bound is at most the limit, and of the others
LowerBoundCompliant(cols, counts, limit) ==
  SumFn(counts, {i \in 1..Len(cols) : LowerOf(cols[i]) <= limit})
LowerBoundNonCompliant(cols, counts, limit) ==
  SumFn(counts, {i \in 1..Len(cols) : LowerOf(cols[i]) > limit})

LoaderUsesLowerBound ==
  df.compl =>
    \A i \in Rows :
      /\ AllBins(Cols1) =>
           /\ df.rows[i].Dir1_Compliant = LowerBoundCompliant(Cols1, df.rows[i].s1, df.limit)
           /\ df.rows[i].Dir1_Non_Compliant = LowerBoundNonCompliant(Cols1, df.rows[i].s1, df.limit)
      /\ AllBins(Cols2) =>
           /\ df.rows[i].Dir2_Compliant = LowerBoundCompliant(Cols2, df.rows[i].s2, df.limit)
           /\ df.rows[i].Dir2_Non_Compliant = LowerBoundNonCompliant(Cols2, df.rows[i].s2, df.limit)

MetricUsesLowerBound(cols, sums, result) ==
  AllBins(cols) =>
    /\ result.compliant = LowerBoundCompliant(cols, sums, ret.limit)
    /\ result.total = LowerBoundCompliant(cols, sums, ret.limit)
                      + LowerBoundNonCompliant(cols, sums, ret.limit)

RateOf(c) == IF c.total > 0 THEN Rat(c.compliant * 100, c.total) ELSE Zero

NotLower(a, b) == a.compliant <= b.compliant /\ RatLe(RateOf(a), RateOf(b))

C6_ComplianceMonotoneInLimit ==
  /\ (ret.op = "calculate_compliance" /\ prev.op = "calculate_compliance"
      /\ prev.limit <= ret.limit)
       => /\ NotLower(prev.val.dir1, ret.val.dir1)
          /\ NotLower(prev.val.dir2, ret.val.dir2)
  /\ (ret.op = "load_data" /\ prev.op = "load_data" /\ prev.limit <= ret.limit
      /\ ret.val.st = "ok" /\ prev.val.st = "ok")
       => NotLower(prev.val, ret.val)

C6_Witness ==
  /\ ret.op = "calculate_compliance" /\ prev.op = "calculate_compliance"
  /\ prev.limit < ret.limit
  /\ 0 < prev.val.dir1.compliant
  /\ prev.val.dir1.compliant < ret.val.dir1.compliant
  /\ ~RatLe(RateOf(ret.val.dir1), RateOf(prev.val.dir1))

(***************************************************************************)
(* C7: the compliance_rate get_core_metrics returns is the rate for the    *)
(* speed limit of that call: 100 x (count in the bins whose representative *)
(* speed is at most the limit) / (count in all parseable bins), also on a  *)
(* table load_data returned.  Stated for files whose speed columns are     *)
(* all bins "a-b" with a <= b or "N+".                                     *)
(***************************************************************************)
EffectiveLimit == IF ret.limit = None THEN DefaultPostedSpeed ELSE ret.limit

C7_RateUsesLimitOfCall ==
  (/\ ret.op = "get_core_metrics"
   /\ AllBins(Cols1) /\ AllBins(Cols2) /\ AllWellFormed(Cols1) /\ AllWellFormed(Cols2))
    => LET compliant == CountUpTo(Cols1, Sums1, EffectiveLimit)
                        + CountUpTo(Cols2, Sums2, EffectiveLimit)
           total == SumFn(Sums1, Parseable(Cols1)) + SumFn(Sums2, Parseable(Cols2))
       IN RatEq(ret.val.compliance_rate,
                IF total > 0 THEN Rat(100 * compliant, total) ELSE Zero)

(***************************************************************************)
(* C8: the 85th-percentile speed lies between the smallest lower bound     *)
(* and the largest upper bound of the speed columns handed to              *)
(* calculate_85th_percentile_speed (an open bin "N+" has upper bound       *)
(* N + 5), whenever one of the columns has a nonzero total count.          *)
(***************************************************************************)
AllCols == Cols1 \o Cols2
AllSums == Sums1 \o Sums2
Bounded == {i \in 1..Len(AllCols) : HasBounds(AllCols[i])}

WithinBins(v) ==
  /\ \E i \in Bounded : RatLe(Rat(LowerOf(AllCols[i]), 1), v)
  /\ \E i \in Bounded : RatLe(v, Rat(UpperOf(AllCols[i]), 1))

NonzeroBins == {i \in Bounded : AllSums[i] > 0}
TotalCount == SumFn(AllSums, NonzeroBins)

\* the interpolation within bin i when the bins of the set before precede it
InterpolatedAt(i, before) ==
  LET cumulative_before == SumFn(AllSums, before)
      lower == LowerOf(AllCols[i])
      upper == UpperOf(AllCols[i])
  IN Rat(lower * 100 * AllSums[i]
         + (85 * TotalCount - 100 * cumulative_before) * (upper - lower),
         100 * AllSums[i])

ReachesTargetAt(i, before) ==
  LET cumulative_before == SumFn(AllSums, before) IN
  /\ 100 * cumulative_before < 85 * TotalCount
  /\ 85 * TotalCount <= 100 * (cumulative_before + AllSums[i])

C9_PercentileInterpolation ==
  ret.op = "calculate_85th_percentile_speed" =>
    IF NonzeroBins = {} THEN RatEq(ret.val, Zero)
    ELSE \E i \in NonzeroBins :
           \E ties \in SUBSET {j \in NonzeroBins \ {i} :
                                 LowerOf(AllCols[j]) = LowerOf(AllCols[i])} :
             LET before == {j \in NonzeroBins : LowerOf(AllCols[j]) < LowerOf(AllCols[i])}
                           \cup ties
             IN /\ ReachesTargetAt(i, before)
                /\ RatEq(ret.val, InterpolatedAt(i, before))

\* the single bin "25-29" with count 100 gives 28.4
C9_Witness ==
  /\ file \in ExampleFiles
  /\ ret.op = "calculate_85th_percentile_speed"
  /\ AllCols = <<Bin2529>> /\ AllSums = <<100>>
  /\ RatEq(ret.val, Rat(284, 10))

(***************************************************************************)
(* C10: calculate_adt returns the mean of the per-date sums of Total over  *)
(* the dates with at least 20 hourly records, over all dates when no date  *)
(* has 20 records, and 0 on an empty table.                                *)
(***************************************************************************)
RowsOfDate(d) == {i \in Rows : df.rows[i].date = d}
DateSums == [d \in Dates(df.rows) |-> SumFn([i \in Rows |-> df.rows[i].Total], RowsOfDate(d))]
DatesWith20Records == {d \in Dates(df.rows) : Cardinality(RowsOfDate(d)) >= 20}

C10_AdtOverCompleteDays ==
  ret.op = "calculate_adt" =>
    IF df.rows = <<>> THEN RatEq(ret.val, Zero)
    ELSE IF DatesWith20Records = {}
    THEN RatEq(ret.val, Rat(SumFn(DateSums, Dates(df.rows)), Cardinality(Dates(df.rows))))
    ELSE RatEq(ret.val, Rat(SumFn(DateSums, DatesWith20Records), Cardinality(DatesWith20Records)))

\* day 1 with 24 rows summing to 480, day 2 with 8 rows summing to 200: 480
C10_Witness ==
  /\ ret.op = "calculate_adt"
  /\ Dates(df.rows) = {1, 2}
  /\ Cardinality(RowsOfDate(1)) = 24 /\ DateSums[1] = 480
  /\ Cardinality(RowsOfDate(2)) = 8 /\ DateSums[2] = 200
  /\ RatEq(ret.val, Rat(480, 1))

(***************************************************************************)
(* C11.  A file with no line containing 'Date/Time' among its first 15     *)
(* lines is not recognised: detect_file_structure returns None, and        *)
(* load_data raises FileStructureError before pd.read_csv reads the data.  *)
(***************************************************************************)
MentionsDateTime(line) ==
  \E k \in 1..Len(line) : \E w \in 1..Len(line[k].words) : line[k].words[w] = "Date/Time"

NoDateTimeInHead ==
  /\ file.exists
  /\ \A i \in 1..Len(file.lines) : i <= 15 => ~MentionsDateTime(file.lines[i])

\* C11: no 'Date/Time' in the first 15 lines => detection returns None and
\* load_data raises FileStructureError without reading the data body
C11_NoHeaderNoStructure ==
  NoDateTimeInHead =>
    /\ ret.op = "detect_file_structure" => ret.val.is_none
    /\ ret.op = "load_data" => ret.val.st = "FileStructureError" /\ ~ret.val.read_csv

\* the header row is the 16th line, and load_data has raised
C11_Witness ==
  /\ NoDateTimeInHead
  /\ Len(file.lines) = 16 /\ MentionsDateTime(file.lines[16])
  /\ ret.op = "load_data" /\ ret.val.st = "FileStructureError" /\ ~ret.val.read_csv

(***************************************************************************)
(* C12.  Detection is all-or-nothing: a structure that is returned has     *)
(* both directional volume columns set.                                    *)
(***************************************************************************)
DetectionReturned ==
  /\ ret.op \in {"detect_file_structure", "parser.detect_file_structure"}
  /\ ~ret.val.is_none

\* C12: detect_file_structure never returns a structure in which
\* dir1_volume_col or dir2_volume_col is unset
C12_AllOrNothing ==
  DetectionReturned =>
    /\ ret.val.value.dir1_volume_col # NoColumn
    /\ ret.val.value.dir2_volume_col # NoColumn

(***************************************************************************)
(* C13.  A missing file is reported as a failure of another kind than the  *)
(* one reported for a readable file whose structure is not recognised      *)
(* (None from detect_file_structure, FileStructureError from load_data).   *)
(***************************************************************************)
\* C13: for a missing file detect_file_structure does not answer None and
\* load_data does not raise FileStructureError, the answers to a file of the
\* wrong format
C13_MissingFileToldApart ==
  ~file.exists =>
    /\ ret.op = "detect_file_structure" => ~ret.val.is_none
    /\ ret.op = "load_data" => ret.val.st # "FileStructureError"

(***************************************************************************)
(* C14.  What a returned structure names is in the header row.             *)
(***************************************************************************)
Elements(seq) == {seq[i] : i \in 1..Len(seq)}

NamesOfHeader(structure) ==
  /\ Elements(structure.dir1_speed_cols) \subseteq Elements(structure.columns)
  /\ Elements(structure.dir2_speed_cols) \subseteq Elements(structure.columns)
  /\ Elements(structure.dir1_class_cols) \subseteq Elements(structure.columns)
  /\ Elements(structure.dir2_class_cols) \subseteq Elements(structure.columns)
  /\ structure.dir1_volume_col # NoColumn =>
       Named(structure.dir1_volume_col) \in Elements(structure.columns)
  /\ structure.dir2_volume_col # NoColumn =>
       Named(structure.dir2_volume_col) \in Elements(structure.columns)

\* C14: in every returned structure the speed, class and set volume columns
\* are columns of the header row, a class list has at most 6 entries, and the
\* directions are Northbound/Southbound or Eastbound/Westbound
C14_StructureNamesHeaderColumns ==
  DetectionReturned =>
    /\ NamesOfHeader(ret.val.value)
    /\ Len(ret.val.value.dir1_class_cols) <= 6
    /\ Len(ret.val.value.dir2_class_cols) <= 6
    /\ <<ret.val.value.dir1_name, ret.val.value.dir2_name>>
         \in {<<"Northbound", "Southbound">>, <<"Eastbound", "Westbound">>}

\* a structure with speed, class and volume columns of both directions
C14_Witness ==
  /\ DetectionReturned
  /\ ret.val.value.dir1_speed_cols # <<>> /\ ret.val.value.dir2_speed_cols # <<>>
  /\ ret.val.value.dir1_class_cols # <<>> /\ ret.val.value.dir2_class_cols # <<>>
  /\ ret.val.value.dir1_volume_col # NoColumn /\ ret.val.value.dir2_volume_col # NoColumn

(***************************************************************************)
(* C15.  Two runs of detect_file_structure on the same file and the same   *)
(* directory, the directory being listed in any two orders.                *)
(***************************************************************************)
\* C15: two runs of detect_file_structure on the same file and directory
\* return identical structures, reference_files included, whatever the order
\* of the directory listing
C15_DetectionDeterministic ==
  /\ (ret.op = "parser.detect_file_structure" /\ prev.op = "parser.detect_file_structure")
       => ret.val = prev.val

(***************************************************************************)
(* C16.  The posted speed declared by the Total-SPD reference file of the  *)
(* location, in the structure load_data returns.                           *)
(***************************************************************************)
\* the location's Total-SPD file declares the posted speed p
Declares(p) ==
  \E d \in file.dir :
    /\ d.stem = TotalSpdStem
    /\ d.posted # <<>> /\ d.posted[1].tok = <<Num(p)>>

\* C16: when the location's Total-SPD file declares posted speed p, the
\* structure load_data returns contains posted_speed = p
C16_LoadDataCarriesPostedSpeed ==
  \A p \in {30, 35} :
    (ret.op = "load_data" /\ ret.val.st = "ok" /\ Declares(p)) =>
      /\ "posted_speed" \in DOMAIN ret.val.structure
      /\ ret.val.structure.posted_speed = p

(***************************************************************************)
(* C17.  load_data and the validation report.  The report of the           *)
(* validation pass is the one the exception carries when load_data raises  *)
(* and the data_quality of the structure when it returns (df.quality).     *)
(***************************************************************************)
\* the rows the validation pass sees: those with traffic
ValidatedRows == {k \in 1..Len(file.rows) : file.rows[k].v1 > 0 \/ file.rows[k].v2 > 0}

HasErrors == \E k \in ValidatedRows : RowHasNegative(file.rows[k])

HasWarnings ==
  \/ \E k \in ValidatedRows : file.rows[k].v1 > 1000 \/ file.rows[k].v2 > 1000
  \/ \E j, k \in ValidatedRows :
       /\ j < k /\ \A m \in ValidatedRows : ~(j < m /\ m < k)
       /\ file.rows[k].date * 24 + file.rows[k].hour
            # file.rows[j].date * 24 + file.rows[j].hour + 1

\* C17: load_data raises DataValidationError, with the whole report, exactly
\* when the validation pass finds the data invalid; warnings alone do not
\* make it raise
C17_RaisesExactlyWhenInvalid ==
  ret.op = "load_data" =>
    /\ df.st \in {"ok", "DataValidationError"}
    /\ df.st = "DataValidationError" <=> ~df.quality.is_valid
    /\ ~df.quality.is_valid <=> HasErrors
    /\ {"errors", "warnings", "stats"} \subseteq DOMAIN df.quality
    /\ df.quality.errors # <<>> <=> HasErrors
    /\ df.quality.warnings # <<>> <=> HasWarnings
    /\ df.quality.stats.total_hours = Cardinality(ValidatedRows)
    /\ (HasWarnings /\ ~HasErrors) => df.st = "ok" /\ Len(df.rows) = Cardinality(ValidatedRows)

\* a volume above 1000 and irregular spacing, no error: the data is returned
C17_Witness ==
  /\ ret.op = "load_data" /\ df.st = "ok"
  /\ \E k \in ValidatedRows : file.rows[k].v1 > 1000
  /\ Len(df.quality.warnings) = 2
  /\ ~HasErrors

\* the report carried by the exception holds errors and warnings
C17_WitnessRaised ==
  /\ ret.op = "load_data" /\ df.st = "DataValidationError"
  /\ df.quality.errors # <<>> /\ df.quality.warnings # <<>>

(***************************************************************************)
(* C18.  A file whose only data row has both directional volumes 0.        *)
(***************************************************************************)
OnlyRowWithoutTraffic ==
  /\ Len(file.rows) = 1
  /\ file.rows[1].v1 = 0 /\ file.rows[1].v2 = 0

\* C18: for a file whose only data row has both volumes 0, load_data returns
\* an empty table, and get_core_metrics on it returns total_vehicles 0,
\* peak_hour 'N/A', peak_vehicles 0 and dominant_pct 0
C18_EmptyTableMetrics ==
  OnlyRowWithoutTraffic =>
    /\ ret.op = "load_data" => df.st = "ok" /\ df.rows = <<>>
    /\ (ret.op = "get_core_metrics" /\ df.st = "ok") =>
         /\ df.rows = <<>>
         /\ ret.val.total_vehicles = 0
         /\ ret.val.peak_hour = None
         /\ ret.val.peak_vehicles = 0
         /\ ret.val.dominant_pct.num = 0

\* get_core_metrics has returned for the empty table of such a file
C18_Witness ==
  /\ OnlyRowWithoutTraffic
  /\ ret.op = "get_core_metrics" /\ df.st = "ok" /\ df.rows = <<>>
  /\ ret.val.peak_hour = None /\ ret.val.total_vehicles = 0

(***************************************************************************)
(* C19.  calculate_weighted_speed.  The representative speed of a closed   *)
(* bin 'a-b' is (a+b)/2, of an open bin 'N+' is N + 2.5 and of a bin       *)
(* named by one number is that number; twice the speed is an integer.      *)
(***************************************************************************)
HasMidpoint(col) == col.kind \in {"closed", "open", "single"}

TwiceRepresentative(col) ==
  IF col.kind = "open" THEN 2 * col.lo + 5 ELSE col.lo + col.hi

WeightedBins == {i \in 1..Len(AllCols) : HasMidpoint(AllCols[i])}
WeightedTotal == SumFn(AllSums, WeightedBins)
TwiceWeightedSum ==
  SumFn([i \in WeightedBins |-> TwiceRepresentative(AllCols[i]) * AllSums[i]], WeightedBins)

\* C19: the result is the count-weighted mean of the representative speeds of
\* the bins whose name parses, and 0 when their total count is 0
C19_WeightedSpeed ==
  ret.op = "calculate_weighted_speed" =>
    IF WeightedTotal = 0 THEN ret.val.num = 0
    ELSE ret.val.num * 2 * WeightedTotal = TwiceWeightedSum * ret.val.den

\* a single '25-29' bin with a positive count gives 27
C19_Witness ==
  /\ ret.op = "calculate_weighted_speed"
  /\ AllCols = <<Bin2529>> /\ AllSums[1] > 0
  /\ RatEq(ret.val, Rat(27, 1))

\* bins with and without a parseable name, and a positive total
C19_WitnessMixed ==
  /\ ret.op = "calculate_weighted_speed"
  /\ \E i \in 1..Len(AllCols) : ~HasMidpoint(AllCols[i]) /\ AllSums[i] > 0
  /\ WeightedTotal > 0

(***************************************************************************)
(* C20.  Vendor values and estimates in get_core_metrics, the structure    *)
(* being the one that names the reference files of the location.           *)
(***************************************************************************)
\* the Total-SPD files of the location in the directory
VendorFiles == {d \in file.dir : d.stem \in {TotalSpdStem, OlderTotalSpdStem}}

\* hourly rows of a vendor file with traffic and a value in the column
MeanRows(d) == {i \in 1..Len(d.rows) : d.rows[i].Total > 0 /\ d.rows[i].mean > 0}
PercentileRows(d) ==
  {i \in 1..Len(d.rows) : d.has_p85 /\ d.rows[i].Total > 0 /\ d.rows[i].p85 > 0}

IsMeanOf(v, d, S, col) ==
  v.num * Cardinality(S) = SumFn([i \in S |-> d.rows[i][col]], S) * v.den

EstimatedMean ==
  CalculateWeightedSpeedOf(CombinedCols(DetectFileStructure(file).value),
                           CombinedSums(df.rows, DetectFileStructure(file).value))
EstimatedPercentile ==
  Calculate85thPercentileSpeedOf(CombinedCols(DetectFileStructure(file).value),
                                 CombinedSums(df.rows, DetectFileStructure(file).value))

\* C20: each of combined_avg_speed and percentile_85th is the vendor value
\* when the Total-SPD file yields one for it, whatever the other field does,
\* and the estimate from the binned counts when there is no vendor value
C20_VendorValuesPreferred ==
  ret.op = "get_core_metrics.parser" =>
    /\ VendorFiles = {} =>
         /\ RatEq(ret.val.combined_avg_speed, EstimatedMean)
         /\ RatEq(ret.val.percentile_85th, EstimatedPercentile)
    /\ \A d \in VendorFiles : Cardinality(VendorFiles) = 1 =>
         /\ IF MeanRows(d) # {}
            THEN IsMeanOf(ret.val.combined_avg_speed, d, MeanRows(d), "mean")
            ELSE RatEq(ret.val.combined_avg_speed, EstimatedMean)
         /\ IF PercentileRows(d) # {}
            THEN IsMeanOf(ret.val.percentile_85th, d, PercentileRows(d), "p85")
            ELSE RatEq(ret.val.percentile_85th, EstimatedPercentile)

(***************************************************************************)
(* C21.  Peak hour of a non-empty table.                                   *)
(***************************************************************************)
\* the summed Total of the rows of calendar date d and hour h
GroupTotal(d, h) ==
  SumFn([i \in Rows |-> df.rows[i].Total], {i \in Rows : df.rows[i].date = d /\ df.rows[i].hour = h})

Groups == {<<df.rows[i].date, df.rows[i].hour>> : i \in Rows}

\* C21: peak_vehicles is the largest summed Total of a (date, hour) group and
\* peak_hour is the hour, in 0..23, of a group with that sum
C21_PeakHour ==
  (ret.op = "get_core_metrics" /\ df.rows # <<>>) =>
    /\ \A g \in Groups : GroupTotal(g[1], g[2]) <= ret.val.peak_vehicles
    /\ \E g \in Groups : /\ GroupTotal(g[1], g[2]) = ret.val.peak_vehicles
                         /\ g[2] = ret.val.peak_hour
    /\ ret.val.peak_hour \in 0..23

\* two rows of one hour together outweigh a later hour, which is not the
\* first group of the table
C21_Witness ==
  /\ ret.op = "get_core_metrics" /\ Len(df.rows) = 3
  /\ df.rows[1].hour = 0 /\ df.rows[2].hour = 23 /\ df.rows[3].hour = 23
  /\ df.rows[2].date = df.rows[3].date
  /\ df.rows[1].Total > df.rows[2].Total /\ df.rows[1].Total > df.rows[3].Total
  /\ ret.val.peak_hour = 23
  /\ ret.val.peak_vehicles = df.rows[2].Total + df.rows[3].Total

(***************************************************************************)
(* C22.  Dominant direction.                                               *)
(***************************************************************************)
Volume1 == SumFn([i \in Rows |-> df.rows[i].v1], Rows)
Volume2 == SumFn([i \in Rows |-> df.rows[i].v2], Rows)
NonNegativeVolumes == \A i \in Rows : df.rows[i].v1 >= 0 /\ df.rows[i].v2 >= 0

\* C22: dominant_direction names the direction with the larger summed volume;
\* dominant_pct is max / (dir1 + dir2) x 100, 0 when both sums are 0, within
\* [50, 100] otherwise and above 50 when the sums differ
C22_DominantDirection ==
  (ret.op = "get_core_metrics" /\ NonNegativeVolumes) =>
    /\ Volume1 > Volume2 => ret.val.dominant_direction = "dir1_name"
    /\ Volume2 > Volume1 => ret.val.dominant_direction = "dir2_name"
    /\ Volume1 + Volume2 = 0 => ret.val.dominant_pct.num = 0
    /\ Volume1 + Volume2 > 0 =>
         /\ Volume1 >= Volume2 =>
              ret.val.dominant_pct.num * (Volume1 + Volume2) = Volume1 * 100 * ret.val.dominant_pct.den
         /\ Volume2 >= Volume1 =>
              ret.val.dominant_pct.num * (Volume1 + Volume2) = Volume2 * 100 * ret.val.dominant_pct.den
         /\ RatLe(Rat(50, 1), ret.val.dominant_pct) /\ RatLe(ret.val.dominant_pct, Rat(100, 1))
         /\ Volume1 # Volume2 => ~RatLe(ret.val.dominant_pct, Rat(50, 1))

\* the second direction carries more than the first, which carries some
C22_Witness ==
  /\ ret.op = "get_core_metrics" /\ NonNegativeVolumes
  /\ Volume2 > Volume1 /\ Volume1 > 0
  /\ ret.val.dominant_direction = "dir2_name"
  /\ ~RatLe(ret.val.dominant_pct, Rat(50, 1)) /\ ~RatLe(Rat(100, 1), ret.val.dominant_pct)

UniformTraffic ==
  /\ Len(df.rows) = 4
  /\ \A i \in Rows : df.rows[i].Total = 100 /\ df.rows[i].hour = i - 1

\* C26: for a table of 4 hours with Total = 100 each, calculate_phf returns 0.25
C26_UniformPhf ==
  (ret.op = "calculate_phf" /\ UniformTraffic) => RatEq(ret.val, Rat(1, 4))

(***************************************************************************)
(* C24.  extract_posted_speed on the Total-SPD file of the location.       *)
(***************************************************************************)
\* the "Posted Speed:" lines of a file whose value is a number
NumberLines(d) ==
  {i \in 1..Len(d.posted) : Len(d.posted[i].tok) = 1 /\ d.posted[i].tok[1].k = "num"}

\* C24: extract_posted_speed returns the number of the first 'Posted Speed:'
\* line that holds one, and None when there is no file, no such line or no
\* number in it
C24_PostedSpeedExtracted ==
  ret.op = "extract_posted_speed" =>
    /\ VendorFiles = {} => ret.val = None
    /\ \A d \in VendorFiles : Cardinality(VendorFiles) = 1 =>
         IF NumberLines(d) = {} THEN ret.val = None
         ELSE \E i \in NumberLines(d) :
                /\ \A j \in NumberLines(d) : i <= j
                /\ ret.val = d.posted[i].tok[1].v

(***************************************************************************)
(* C25.  Memoization safety of get_core_metrics.                           *)
(***************************************************************************)
\* C25: the result is a function of (table, structure, speed limit) alone:
\* what the cached path returns for arguments it has seen is what the
\* uncached implementation returns for them at the time of the call
C25_CacheAgreesWithUncached ==
  \A e \in cache :
    e.value = GetCoreMetricsImpl(e.key.df, e.key.structure, e.key.speed_limit)

(***************************************************************************)
(* C27.  The compliance columns of the loader against calculate_compliance.*)
(***************************************************************************)
\* columns named "a-b" with a <= b, or "N+"
WellFormedBins(cols) == AllBins(cols) /\ AllWellFormed(cols)

\* C27: for every limit and well-formed column names, the compliant count of
\* calculate_compliance equals the total of the Compliant column that
\* load_data or calculate_speed_compliance built from the same columns and
\* the same limit
C27_ComplianceImplementationsAgree ==
  (ret.op = "calculate_compliance" /\ df.compl /\ df.limit = ret.limit) =>
    /\ WellFormedBins(Cols1) =>
         ret.val.dir1.compliant = ColumnSum(df.rows, "Dir1_Compliant")
    /\ WellFormedBins(Cols2) =>
         ret.val.dir2.compliant = ColumnSum(df.rows, "Dir2_Compliant")

\* a limit inside a bin that holds vehicles: both implementations count them
C27_Witness ==
  /\ ret.op = "calculate_compliance" /\ df.compl /\ df.limit = ret.limit
  /\ WellFormedBins(Cols1) /\ WellFormedBins(Cols2)
  /\ \E i \in 1..Len(Cols1) :
       /\ Cols1[i].kind = "closed"
       /\ LowerOf(Cols1[i]) <= ret.limit /\ ret.limit < UpperOf(Cols1[i])
       /\ Sums1[i] > 0
  /\ ret.val.dir1.compliant = ColumnSum(df.rows, "Dir1_Compliant")
  /\ ret.val.dir1.compliant > 0

(***************************************************************************)
(* C28.  load_large_traffic_data against load_data.                        *)
(***************************************************************************)
\* what load_data and load_large_traffic_data derive for a row
Enriched(r) ==
  <<r.date, r.hour, r.v1, r.v2, r.Total, r.Dir1_Compliant, r.Dir1_Non_Compliant,
    r.Dir2_Compliant, r.Dir2_Non_Compliant>>

\* C28: for a file and limit on which load_data succeeds,
\* load_large_traffic_data returns the same enriched rows in the same order
\* and the same filtering-statistics counts, whatever the chunk size
C28_ChunkedLoadAgrees ==
  (ret.op = "load_large_traffic_data" /\ df.st = "ok" /\ df.limit = ret.limit) =>
    /\ Len(ret.val.rows) = Len(df.rows)
    /\ \A i \in Rows : Enriched(ret.val.rows[i]) = Enriched(df.rows[i])
    /\ ret.val.filtering_stats = df.stats

\* three rows of which the middle one has no traffic, read one row at a time
C28_Witness ==
  /\ ret.op = "load_large_traffic_data" /\ df.st = "ok" /\ df.limit = ret.limit
  /\ ret.val.chunk_size = 1
  /\ Len(file.rows) = 3 /\ Len(df.rows) = 2
  /\ file.rows[2].v1 = 0 /\ file.rows[2].v2 = 0
  /\ ret.val.filtering_stats.original_rows = 3
  /\ ret.val.filtering_stats.removed_rows = 1
  /\ Enriched(ret.val.rows[2]) = Enriched(df.rows[2])

(***************************************************************************)
(* C29.  The completeness test of calculate_adt after load_data.           *)
(***************************************************************************)
\* the hourly records of a date in the file, and those of them with traffic
RecordsOfDate(d) == {i \in 1..Len(file.rows) : file.rows[i].date = d}
ActiveRecordsOfDate(d) ==
  {i \in RecordsOfDate(d) : file.rows[i].v1 > 0 \/ file.rows[i].v2 > 0}
DatesWith20ActiveRecords ==
  {d \in Dates(file.rows) : Cardinality(ActiveRecordsOfDate(d)) >= 20}
TrafficOfDate(d) ==
  SumFn([i \in 1..Len(file.rows) |-> file.rows[i].v1 + file.rows[i].v2], RecordsOfDate(d))

\* C29: after load_data, when some date has 20 hourly records with traffic,
\* calculate_adt is the mean of the daily totals of exactly the dates with
\* at least 20 such records: the records without traffic are not counted
C29_CompletenessCountsActiveRows ==
  (ret.op = "calculate_adt" /\ df.st = "ok" /\ DatesWith20ActiveRecords # {}) =>
    RatEq(ret.val,
          Rat(SumFn([d \in Dates(file.rows) |-> TrafficOfDate(d)], DatesWith20ActiveRecords),
              Cardinality(DatesWith20ActiveRecords)))

\* day 1 has 24 records of which 5 are without traffic, day 2 has 24 of
\* which 4 are: only day 2 is averaged
C29_Witness ==
  /\ ret.op = "calculate_adt" /\ df.st = "ok"
  /\ Cardinality(RecordsOfDate(1)) = 24 /\ Cardinality(ActiveRecordsOfDate(1)) = 19
  /\ Cardinality(RecordsOfDate(2)) = 24 /\ Cardinality(ActiveRecordsOfDate(2)) = 20
  /\ TrafficOfDate(1) # TrafficOfDate(2)
  /\ RatEq(ret.val, Rat(TrafficOfDate(2), 1))

(***************************************************************************)
(* C30.  The validation report and the filtering statistics.               *)
(***************************************************************************)
\* C30: in every validation report is_valid holds exactly when the errors
\* list is empty, so a report with warnings and no error is valid; and the
\* filtering statistics satisfy original_rows = filtered_rows + removed_rows,
\* original_rows >= filtered_rows >= 0 and 0 <= removal_percentage <= 100
C30_ReportAndStatisticsConsistent ==
  /\ df.quality.is_valid <=> df.quality.errors = <<>>
  /\ (df.quality.warnings # <<>> /\ df.quality.errors = <<>>) => df.quality.is_valid
  /\ df.stats.original_rows = df.stats.filtered_rows + df.stats.removed_rows
  /\ df.stats.original_rows >= df.stats.filtered_rows
  /\ df.stats.filtered_rows >= 0
  /\ RatLe(Zero, df.stats.removal_percentage)
  /\ RatLe(df.stats.removal_percentage, Rat(100, 1))

\* load_data returned a table with two warnings in its report after
\* dropping one of three rows
C30_Witness ==
  /\ ret.op = "load_data" /\ df.st = "ok"
  /\ Len(df.quality.warnings) = 2 /\ df.quality.errors = <<>> /\ df.quality.is_valid
  /\ df.stats.original_rows = 3 /\ df.stats.filtered_rows = 2 /\ df.stats.removed_rows = 1
  /\ ~RatLe(df.stats.removal_percentage, Zero)
  /\ ~RatLe(Rat(100, 1), df.stats.removal_percentage)

====
